---- MODULE Spec2Model ----
(***************************************************************************)
(* A model of the government-contract search pipeline of mainv8.py:        *)
(* filtering, scoring, document-type classification, location extraction,  *)
(* deduplication, location diversity, content analysis and rescoring.      *)
(*                                                                         *)
(* Texts are TLA+ strings (sequences of characters).  Scores are kept in   *)
(* tenths of a point (15 stands for 1.5): every bonus and penalty of the   *)
(* program is a multiple of 0.5, so the program's float arithmetic is      *)
(* exact and round(score, 1) changes nothing.                              *)
(***************************************************************************)
EXTENDS Integers, Sequences, FiniteSets, TLC

VARIABLES
    pc,           \* main: the next step of the run
    company,      \* main: the company name read from the user
    product,      \* main: the product name read from the user
    num_queries,  \* main: the number of searches to run
    queries_run,  \* main: searches done so far
    all_results,  \* main: the candidate list
    before,       \* the candidate list handed to the stage that ran last
    stages,       \* the stages main has run, in order
    fn,           \* function-level checks: the function applied ("none" before)
    arg,          \* function-level checks: its input
    ret           \* function-level checks: its result

vars == <<pc, company, product, num_queries, queries_run, all_results,
          before, stages, fn, arg, ret>>

mainVars == <<pc, company, product, num_queries, queries_run, all_results,
              before, stages>>

(***************************************************************************)
(* Strings                                                                 *)
(***************************************************************************)

\* the characters i..j of s (1-based, inclusive), clipped to s like a Python slice
Slice(s, i, j) ==
    LET lo == IF i < 1 THEN 1 ELSE i
        hi == IF j > Len(s) THEN Len(s) ELSE j
    IN IF hi < lo THEN "" ELSE SubSeq(s, lo, hi)

\* the character at position i of s, "" outside s
CharAt(s, i) == Slice(s, i, i)

\* the element of a one-element set.  { e(x) : x \in {v} } names the value v
\* once, like an assignment to a local variable of the program
Only(S) == CHOOSE x \in S : TRUE

\* p in s
Contains(s, p) ==
    \E i \in 1..(Len(s) - Len(p) + 1) : SubSeq(s, i, i + Len(p) - 1) = p

\* s.find(p) + 1 (0 when p does not occur)
Find(s, p) ==
    IF Contains(s, p)
    THEN CHOOSE i \in 1..(Len(s) - Len(p) + 1) :
            /\ SubSeq(s, i, i + Len(p) - 1) = p
            /\ \A j \in 1..(i - 1) : SubSeq(s, j, j + Len(p) - 1) # p
    ELSE 0

StartsWithAt(s, i, p) == i >= 1 /\ i + Len(p) - 1 <= Len(s) /\ SubSeq(s, i, i + Len(p) - 1) = p

EndsWith(s, p) == Len(p) <= Len(s) /\ SubSeq(s, Len(s) - Len(p) + 1, Len(s)) = p

UpperAlphabet == "ABCDEFGHIJKLMNOPQRSTUVWXYZ"
LowerAlphabet == "abcdefghijklmnopqrstuvwxyz"
DigitChars == "0123456789"

UpperLetters == { SubSeq(UpperAlphabet, i, i) : i \in 1..26 }
LowerLetters == { SubSeq(LowerAlphabet, i, i) : i \in 1..26 }
Digits == { SubSeq(DigitChars, i, i) : i \in 1..10 }

IsUpper(c) == c \in UpperLetters
IsLetter(c) == c \in LowerLetters
IsDigit(c) == c \in Digits

LowerChar(c) == IF IsUpper(c) THEN CharAt(LowerAlphabet, Find(UpperAlphabet, c)) ELSE c
UpperChar(c) == IF IsLetter(c) THEN CharAt(UpperAlphabet, Find(LowerAlphabet, c)) ELSE c

\* the characters i..j of s, each mapped by the character map named by how
RECURSIVE MapRange(_, _, _, _)
MapRange(s, i, j, how) ==
    IF i > j THEN ""
    ELSE IF i = j
    THEN LET c == CharAt(s, i)
             prevCased == i > 1 /\ (IsLetter(CharAt(s, i - 1)) \/ IsUpper(CharAt(s, i - 1)))
         IN CASE how = "lower" -> LowerChar(c)
              [] how = "upper" -> UpperChar(c)
              [] how = "title" -> IF prevCased THEN LowerChar(c) ELSE UpperChar(c)
    ELSE LET m == (i + j) \div 2 IN MapRange(s, i, m, how) \o MapRange(s, m + 1, j, how)

\* str.lower()
lower(s) == MapRange(s, 1, Len(s), "lower")

\* str.upper()
upper(s) == MapRange(s, 1, Len(s), "upper")

\* str.title(): a letter is upper-cased after a non-letter, lower-cased after a letter
title_case(s) == MapRange(s, 1, Len(s), "title")

(***************************************************************************)
(* DocumentType                                                            *)
(***************************************************************************)

\* re.search(p, text) for the patterns of DocumentType.TYPES: all are literal
\* but 'item \d+', which asks for "item " and at least one digit
re_search(p, text) ==
    IF p = "item \\d+"
    THEN \E i \in 1..Len(DigitChars) : Contains(text, "item " \o CharAt(DigitChars, i))
    ELSE Contains(text, p)

NoPatterns == <<>>

\* DocumentType.TYPES in the dict's insertion order, which classify iterates
TYPES_swapped ==
    << [name |-> "Order Form",
        patterns |-> <<"order form", "renewal order", "purchase order">>,
        exclude_patterns |-> NoPatterns, priority |-> 1, pricing_likely |-> TRUE],
       [name |-> "Pricing Document",
        patterns |-> <<"pricing", "fee schedule", "cost exhibit", "cost proposal", "price list">>,
        exclude_patterns |-> NoPatterns, priority |-> 3, pricing_likely |-> TRUE],
       [name |-> "Contract/Agreement",
        patterns |-> <<"agreement", "contract", "master service">>,
        exclude_patterns |-> <<"item \\d+", "agenda", "staff report", "memo">>,
        priority |-> 2, pricing_likely |-> TRUE],
       [name |-> "Staff Report/Memo",
        patterns |-> <<"staff report", "council report", "agenda report", "memo", "memorandum",
                       "item \\d+", "board agenda", "council agenda">>,
        exclude_patterns |-> NoPatterns, priority |-> 4, pricing_likely |-> FALSE],
       [name |-> "RFP/Proposal",
        patterns |-> <<"rfp", "request for proposal", "bid", "solicitation", "proposal", "response">>,
        exclude_patterns |-> NoPatterns, priority |-> 5, pricing_likely |-> FALSE],
       [name |-> "Other Government Document",
        patterns |-> NoPatterns,
        exclude_patterns |-> NoPatterns, priority |-> 6, pricing_likely |-> FALSE] >>

TYPES ==
    << [name |-> "Order Form",
        patterns |-> <<"order form", "renewal order", "purchase order">>,
        exclude_patterns |-> NoPatterns, priority |-> 1, pricing_likely |-> TRUE],
       [name |-> "Contract/Agreement",
        patterns |-> <<"agreement", "contract", "master service">>,
        exclude_patterns |-> <<"item \\d+", "agenda", "staff report", "memo">>,
        priority |-> 2, pricing_likely |-> TRUE],
       [name |-> "Pricing Document",
        patterns |-> <<"pricing", "fee schedule", "cost exhibit", "cost proposal", "price list">>,
        exclude_patterns |-> NoPatterns, priority |-> 3, pricing_likely |-> TRUE],
       [name |-> "Staff Report/Memo",
        patterns |-> <<"staff report", "council report", "agenda report", "memo", "memorandum",
                       "item \\d+", "board agenda", "council agenda">>,
        exclude_patterns |-> NoPatterns, priority |-> 4, pricing_likely |-> FALSE],
       [name |-> "RFP/Proposal",
        patterns |-> <<"rfp", "request for proposal", "bid", "solicitation", "proposal", "response">>,
        exclude_patterns |-> NoPatterns, priority |-> 5, pricing_likely |-> FALSE],
       [name |-> "Other Government Document",
        patterns |-> NoPatterns,
        exclude_patterns |-> NoPatterns, priority |-> 6, pricing_likely |-> FALSE] >>

OtherType == TYPES[Len(TYPES)]

\* any(re.search(p, text) for p in patterns)
any_search(patterns, text) ==
    \E i \in 1..Len(patterns) : re_search(patterns[i], text)

\* the loop of classify from the i-th type on
RECURSIVE classifyFrom(_, _)
classifyFrom(i, text) ==
    IF i > Len(TYPES) THEN OtherType
    ELSE LET type_info == TYPES[i] IN
         IF type_info.name = "Other Government Document" THEN classifyFrom(i + 1, text)
         ELSE IF any_search(type_info.exclude_patterns, text) THEN classifyFrom(i + 1, text)
         ELSE IF any_search(type_info.patterns, text) THEN type_info
         ELSE classifyFrom(i + 1, text)

\* the loop of classify with the exclude_patterns test left out
RECURSIVE classifyFromNoExclude(_, _)
classifyFromNoExclude(i, text) ==
    IF i > Len(TYPES) THEN OtherType
    ELSE LET type_info == TYPES[i] IN
         IF type_info.name = "Other Government Document" THEN classifyFromNoExclude(i + 1, text)
         ELSE IF any_search(type_info.patterns, text) THEN type_info
         ELSE classifyFromNoExclude(i + 1, text)

classify_no_exclude(url, title) ==
    Only({ classifyFromNoExclude(1, text) : text \in {lower(url \o " " \o title)} })

\* DocumentType.classify: the type record (type_name is its name field)
classify(url, title) ==
    Only({ classifyFrom(1, text) : text \in {lower(url \o " " \o title)} })

(***************************************************************************)
(* SearchConfig                                                            *)
(***************************************************************************)

BLOCKED_DOMAINS ==
    { "accela.com", "www.accela.com", "tyler.com", "tylertech.com",
      "civicplus.com", "granicus.com",
      "govbusinessreview.com", "govciooutlook.com", "g2.com", "capterra.com",
      "softwareadvice.com", "softwaresuggest.com", "gartner.com", "trustradius.com",
      "getapp.com", "peerspot.com", "sourceforge.net", "slashdot.org",
      "f6s.com", "toolsinfo.com", "design.toolsinfo.com", "saascounter.com",
      "3sgplus.com", "vision33.com", "contentarch.com", "sewcopy.com",
      "civicdata.com", "carahsoft.com",
      "catalogartifact.azureedge.net", "marketplace.microsoft.com",
      "aws.amazon.com", "azure.microsoft.com",
      "usermanual.wiki", "scribd.com",
      "prnewswire.com", "businesswire.com", "globenewswire.com",
      "prweb.com", "prbuzz.com",
      "bidnet.com", "www.bidnet.com", "bidnetdirect.com", "bonfirehub.com",
      "www.bonfirehub.com", "publicpurchase.com", "govwin.com", "bidsync.com",
      "planetbids.com", "bidexpress.com", "demandstar.com", "negometrix.com",
      "ionwave.net", "bidsandawards.com", "highergov.com", "bidbanana.thebidlab.com",
      "pdffiller.com", "documentcloud.org",
      "linkedin.com", "twitter.com", "facebook.com", "youtube.com",
      "wikipedia.org", "reddit.com" }

TRUSTED_DOMAINS == { ".gov", ".us", ".state.", "civicweb", "legistar.com" }

\* the strings matched by the regular expression  a s? b
opt_s(a, b) == { a \o b, a \o "s" \o b }

\* the strings matched by the regular expression  a [-_]? b
opt_sep(a, b) == { a \o b, a \o "-" \o b, a \o "_" \o b }

\* every pattern of GOOD_URL_PATTERNS as the set of strings it matches
GOOD_URL_PATTERNS ==
    << opt_s("/document", "/"), opt_s("/file", "/"), opt_s("/attachment", "/"),
       opt_s("/contract", "/"), {"/purchasing/"}, {"/procurement/"}, opt_s("/bid", "/"),
       {"/rfp/"}, {"/agenda/"}, {"/minutes/"}, opt_s("/resolution", "/"),
       opt_s("/ordinance", "/"), {"documentcenter"}, {"weblink"}, {"edoc"}, {"civicweb"},
       {"questys"}, {"laserfiche"}, {"/archive/"}, {"agendacenter"}, {"boardagenda"},
       {"boardpacket"} >>

\* every pattern of USER_DOC_PATTERNS as the set of strings it matches
USER_DOC_PATTERNS ==
    << opt_sep("user", "guide"), opt_sep("how", "to"), {"instructions"}, {"tutorial"},
       opt_sep("help", "doc"), opt_sep("getting", "started"), opt_sep("quick", "start"),
       opt_sep("admin", "guide"), opt_sep("administrator", "guide"),
       opt_sep("scripting", "guide"), opt_sep("planning", "guide"),
       opt_sep("system", "planning"), opt_sep("concepts", "guide"),
       {"training"}, {"glossary"}, {"faq"} >>

USER_DOC_TITLE_PATTERNS ==
    << "user guide", "user's guide", "how to", "instructions for",
       "submission guide", "submittal guide", "online permitting system",
       "getting started", "tutorial", "admin guide", "administrator guide",
       "scripting guide", "concepts guide", "gis administration",
       "system planning", "view and manage", "glossary", "faq" >>

\* HIGH_VALUE_TITLE_PATTERNS: pattern and bonus (tenths)
HIGH_VALUE_TITLE_PATTERNS ==
    << <<"order form", 25>>, <<"renewal order form", 25>>,
       <<"subscription services agreement", 20>>, <<"master services agreement", 20>>,
       <<"software license agreement", 20>>, <<"license agreement", 15>>,
       <<"pricing schedule", 20>>, <<"fee schedule", 20>>, <<"cost proposal", 15>>,
       <<"price proposal", 15>>, <<"cost exhibit", 20>>, <<"pricing exhibit", 20>>,
       <<"exhibit a", 10>>, <<"exhibit b", 10>> >>

\* re.search over a pattern given as the set of strings it matches
search_any(literals, text) == \E l \in literals : Contains(text, l)

(***************************************************************************)
(* Domain and URL analysis                                                 *)
(***************************************************************************)

SchemeChars == LowerAlphabet \o UpperAlphabet \o DigitChars \o "+-."

\* the first position >= i of s holding one of the characters of stops, or Len(s) + 1
FirstOf(s, i, stops) ==
    LET hits == { k \in i..Len(s) : Contains(stops, CharAt(s, k)) } IN
    IF hits = {} THEN Len(s) + 1 ELSE CHOOSE k \in hits : \A h \in hits : k <= h

\* urlparse(url).netloc: what follows "//" after the scheme, up to the next / ? or #
netloc(url) ==
    LET colon == Find(url, ":")
        hasScheme == /\ colon > 1
                     /\ (IsLetter(CharAt(url, 1)) \/ IsUpper(CharAt(url, 1)))
                     /\ \A k \in 1..(colon - 1) : Contains(SchemeChars, CharAt(url, k))
    IN Only({ IF StartsWithAt(rest, 1, "//")
              THEN Slice(rest, 3, FirstOf(rest, 3, "/?#") - 1)
              ELSE ""
              : rest \in { IF hasScheme THEN Slice(url, colon + 1, Len(url)) ELSE url } })

get_domain(url) == lower(netloc(url))

\* the blocked entries that occur in the domain
blocked_matches(url) ==
    UNION { { blocked \in BLOCKED_DOMAINS : Contains(domain, blocked) } :
            domain \in {get_domain(url)} }

\* is_blocked_domain: the values it can return.  BLOCKED_DOMAINS is a set, so
\* which matching entry the loop meets first is not fixed
is_blocked_domain(url) ==
    UNION { IF matches = {}
            THEN { [is_blocked |-> FALSE, blocked_domain |-> ""] }
            ELSE { [is_blocked |-> TRUE, blocked_domain |-> b] : b \in matches }
            : matches \in {blocked_matches(url)} }

is_trusted_domain(url) ==
    \E domain \in {get_domain(url)}, url_lower \in {lower(url)} :
        \E trusted \in TRUSTED_DOMAINS :
            Contains(domain, trusted) \/ Contains(url_lower, trusted)

has_good_url_pattern(url) ==
    \E url_lower \in {lower(url)} :
        \E i \in 1..Len(GOOD_URL_PATTERNS) : search_any(GOOD_URL_PATTERNS[i], url_lower)

is_user_documentation(url, title) ==
    \E url_lower \in {lower(url)}, title_lower \in {lower(title)} :
        \/ \E i \in 1..Len(USER_DOC_PATTERNS) : search_any(USER_DOC_PATTERNS[i], url_lower)
        \/ \E i \in 1..Len(USER_DOC_TITLE_PATTERNS) :
              Contains(title_lower, USER_DOC_TITLE_PATTERNS[i])

is_pdf_url(url) == Contains(lower(url), ".pdf")

(***************************************************************************)
(* Result filtering and scoring                                            *)
(***************************************************************************)

contract_keywords ==
    { "contract", "agreement", "procurement", "purchasing", "rfp", "bid",
      "proposal", "memo", "resolution", "agenda", "ordinance", "staff report",
      "award", "amendment", "renewal", "pricing", "order form", "fee schedule" }

\* filter_result with the trusted-PDF test ahead of the blocked-domain test
filter_cascade_pdf_first(url, title, text, has_company, has_product, blockedRet) ==
    IF is_pdf_url(url) /\ is_trusted_domain(url)
    THEN [include |-> TRUE, reason |-> "PDF from trusted domain"]
    ELSE IF blockedRet.is_blocked
    THEN [include |-> FALSE, reason |-> "Blocked domain: " \o blockedRet.blocked_domain]
    ELSE IF is_user_documentation(url, title)
    THEN [include |-> FALSE, reason |-> "User documentation"]
    ELSE IF is_pdf_url(url) /\ has_good_url_pattern(url)
    THEN [include |-> TRUE, reason |-> "PDF from document repository"]
    ELSE IF ~has_company /\ ~has_product
    THEN [include |-> FALSE, reason |-> "No company/product match"]
    ELSE IF \E kw \in contract_keywords : Contains(text, kw)
    THEN [include |-> TRUE, reason |-> "Has contract keyword"]
    ELSE IF is_trusted_domain(url) /\ (has_company \/ has_product)
    THEN [include |-> TRUE, reason |-> "Trusted domain with match"]
    ELSE IF has_good_url_pattern(url)
    THEN [include |-> TRUE, reason |-> "Document repository pattern"]
    ELSE [include |-> FALSE, reason |-> "No contract signals"]

\* filter_result with the entity test ahead of the two PDF admissions
filter_cascade_entity_first(url, title, text, has_company, has_product, blockedRet) ==
    IF blockedRet.is_blocked
    THEN [include |-> FALSE, reason |-> "Blocked domain: " \o blockedRet.blocked_domain]
    ELSE IF is_user_documentation(url, title)
    THEN [include |-> FALSE, reason |-> "User documentation"]
    ELSE IF ~has_company /\ ~has_product
    THEN [include |-> FALSE, reason |-> "No company/product match"]
    ELSE IF is_pdf_url(url) /\ is_trusted_domain(url)
    THEN [include |-> TRUE, reason |-> "PDF from trusted domain"]
    ELSE IF is_pdf_url(url) /\ has_good_url_pattern(url)
    THEN [include |-> TRUE, reason |-> "PDF from document repository"]
    ELSE IF \E kw \in contract_keywords : Contains(text, kw)
    THEN [include |-> TRUE, reason |-> "Has contract keyword"]
    ELSE IF is_trusted_domain(url) /\ (has_company \/ has_product)
    THEN [include |-> TRUE, reason |-> "Trusted domain with match"]
    ELSE IF has_good_url_pattern(url)
    THEN [include |-> TRUE, reason |-> "Document repository pattern"]
    ELSE [include |-> FALSE, reason |-> "No contract signals"]

\* the cascade with the user-documentation test after the two PDF rules
filter_cascade_user_doc_late(url, title, text, has_company, has_product, blockedRet) ==
    IF blockedRet.is_blocked
    THEN [include |-> FALSE, reason |-> "Blocked domain: " \o blockedRet.blocked_domain]
    ELSE IF is_pdf_url(url) /\ is_trusted_domain(url)
    THEN [include |-> TRUE, reason |-> "PDF from trusted domain"]
    ELSE IF is_pdf_url(url) /\ has_good_url_pattern(url)
    THEN [include |-> TRUE, reason |-> "PDF from document repository"]
    ELSE IF is_user_documentation(url, title)
    THEN [include |-> FALSE, reason |-> "User documentation"]
    ELSE IF ~has_company /\ ~has_product
    THEN [include |-> FALSE, reason |-> "No company/product match"]
    ELSE IF \E kw \in contract_keywords : Contains(text, kw)
    THEN [include |-> TRUE, reason |-> "Has contract keyword"]
    ELSE IF is_trusted_domain(url) /\ (has_company \/ has_product)
    THEN [include |-> TRUE, reason |-> "Trusted domain with match"]
    ELSE IF has_good_url_pattern(url)
    THEN [include |-> TRUE, reason |-> "Document repository pattern"]
    ELSE [include |-> FALSE, reason |-> "No contract signals"]

\* the cascade of filter_result once the text and the entity matches are known
filter_cascade(url, title, text, has_company, has_product, blockedRet) ==
    IF blockedRet.is_blocked
    THEN [include |-> FALSE, reason |-> "Blocked domain: " \o blockedRet.blocked_domain]
    ELSE IF is_user_documentation(url, title)
    THEN [include |-> FALSE, reason |-> "User documentation"]
    ELSE IF is_pdf_url(url) /\ is_trusted_domain(url)
    THEN [include |-> TRUE, reason |-> "PDF from trusted domain"]
    ELSE IF is_pdf_url(url) /\ has_good_url_pattern(url)
    THEN [include |-> TRUE, reason |-> "PDF from document repository"]
    ELSE IF ~has_company /\ ~has_product
    THEN [include |-> FALSE, reason |-> "No company/product match"]
    ELSE IF \E kw \in contract_keywords : Contains(text, kw)
    THEN [include |-> TRUE, reason |-> "Has contract keyword"]
    ELSE IF is_trusted_domain(url) /\ (has_company \/ has_product)
    THEN [include |-> TRUE, reason |-> "Trusted domain with match"]
    ELSE IF has_good_url_pattern(url)
    THEN [include |-> TRUE, reason |-> "Document repository pattern"]
    ELSE [include |-> FALSE, reason |-> "No contract signals"]

\* filter_result, given what is_blocked_domain returned: (include, reason)
filter_result(result, company_, product_, blockedRet) ==
    Only({ filter_cascade(result.url, result.title, text,
                          Contains(text, lower(company_)), Contains(text, lower(product_)),
                          blockedRet)
           : text \in {lower(result.title \o " " \o result.url)} })

\* max(x, 0)
floor0_missing(x) == x

floor0(x) == IF x > 0 THEN x ELSE 0

DigitValue(c) == Find(DigitChars, c) - 1

\* r'20(2[0-6]|1[9])' matches at position i of text
year_at(text, i) ==
    LET d3 == CharAt(text, i + 2)
        d4 == CharAt(text, i + 3)
    IN /\ Slice(text, i, i + 1) = "20"
       /\ \/ d3 = "2" /\ IsDigit(d4) /\ DigitValue(d4) <= 6
          \/ d3 = "1" /\ d4 = "9"

\* re.findall reports the match at position i: matches do not overlap, so a
\* match is skipped when a reported match covers its first character
RECURSIVE year_reported(_, _)
year_reported(text, i) ==
    /\ i >= 1
    /\ year_at(text, i)
    /\ \A j \in (i - 3)..(i - 1) : ~year_reported(text, j)

\* re.findall(r'20(2[0-6]|1[9])', text), as the years matched
findall_years(text) ==
    { 2000 + 10 * DigitValue(CharAt(text, i + 2)) + DigitValue(CharAt(text, i + 3)) :
        i \in { k \in 1..Len(text) : year_reported(text, k) } }

SetMax(S) == CHOOSE x \in S : \A y \in S : y <= x

YearText(y) == "20" \o CharAt(DigitChars, ((y - 2000) \div 10) + 1) \o CharAt(DigitChars, ((y - 2000) % 10) + 1)

\* f"+{title_bonus}": the float's text
BonusText(b) ==
    CharAt(DigitChars, (b \div 10) + 1) \o "." \o CharAt(DigitChars, (b % 10) + 1)

\* re.search(r'(login|signin|welcome|default)\.aspx?$', url)
login_page(url) ==
    \E name \in {"login", "signin", "welcome", "default"} :
        EndsWith(url, name \o ".asp") \/ EndsWith(url, name \o ".aspx")

\* one scoring step: the amount (tenths) and the reason, or nothing
Bonus(cond, amount, reason) == IF cond THEN <<[amount |-> amount, reason |-> reason]>> ELSE <<>>

RECURSIVE SumAmounts(_)
SumAmounts(steps) ==
    IF steps = <<>> THEN 0 ELSE Head(steps).amount + SumAmounts(Tail(steps))

\* score_result with the three domain-trust tests as independent ifs
score_steps_every_trust_bonus(url, title, text, doc_type, title_bonus, years, company_, product_) ==
    Bonus(Contains(text, lower(company_)), 15, "+1.5 company")
    \o Bonus(Contains(text, lower(product_)), 15, "+1.5 product")
    \o Bonus(is_pdf_url(url), 15, "+1.5 PDF")
    \o Bonus(Contains(url, ".gov"), 25, "+2.5 .gov")
    \o Bonus(is_trusted_domain(url), 20, "+2.0 trusted")
    \o Bonus(has_good_url_pattern(url), 10, "+1.0 doc repo")
    \o (IF doc_type = "Order Form" THEN Bonus(TRUE, 25, "+2.5 order form")
        ELSE IF doc_type = "Contract/Agreement" THEN Bonus(TRUE, 20, "+2.0 contract")
        ELSE IF doc_type = "Pricing Document" THEN Bonus(TRUE, 20, "+2.0 pricing doc")
        ELSE IF doc_type = "Staff Report/Memo" THEN Bonus(TRUE, 10, "+1.0 staff report")
        ELSE Bonus(doc_type = "RFP/Proposal", 5, "+0.5 rfp/proposal"))
    \o Bonus(title_bonus > 0, title_bonus, "+" \o BonusText(title_bonus) \o " title pattern")
    \o (IF years = {} THEN <<>>
        ELSE IF SetMax(years) >= 2024 THEN Bonus(TRUE, 10, "+1.0 " \o YearText(SetMax(years)))
        ELSE Bonus(SetMax(years) >= 2022, 5, "+0.5 " \o YearText(SetMax(years))))
    \o Bonus(is_user_documentation(url, title), -30, "-3.0 user doc")
    \o Bonus(login_page(url), -20, "-2.0 login page")

\* the bonuses and penalties of score_result in the order it applies them; url
\* and title are lower-cased, text is title + " " + url, doc_type the classification
score_steps(url, title, text, doc_type, title_bonus, years, company_, product_) ==
    Bonus(Contains(text, lower(company_)), 15, "+1.5 company")
    \o Bonus(Contains(text, lower(product_)), 15, "+1.5 product")
    \o Bonus(is_pdf_url(url), 15, "+1.5 PDF")
    \o (IF Contains(url, ".gov") THEN Bonus(TRUE, 25, "+2.5 .gov")
        ELSE IF is_trusted_domain(url) THEN Bonus(TRUE, 20, "+2.0 trusted")
        ELSE Bonus(has_good_url_pattern(url), 10, "+1.0 doc repo"))
    \o (IF doc_type = "Order Form" THEN Bonus(TRUE, 25, "+2.5 order form")
        ELSE IF doc_type = "Contract/Agreement" THEN Bonus(TRUE, 20, "+2.0 contract")
        ELSE IF doc_type = "Pricing Document" THEN Bonus(TRUE, 20, "+2.0 pricing doc")
        ELSE IF doc_type = "Staff Report/Memo" THEN Bonus(TRUE, 10, "+1.0 staff report")
        ELSE Bonus(doc_type = "RFP/Proposal", 5, "+0.5 rfp/proposal"))
    \o Bonus(title_bonus > 0, title_bonus, "+" \o BonusText(title_bonus) \o " title pattern")
    \o (IF years = {} THEN <<>>
        ELSE IF SetMax(years) >= 2024 THEN Bonus(TRUE, 10, "+1.0 " \o YearText(SetMax(years)))
        ELSE Bonus(SetMax(years) >= 2022, 5, "+0.5 " \o YearText(SetMax(years))))
    \o Bonus(is_user_documentation(url, title), -30, "-3.0 user doc")
    \o Bonus(login_page(url), -20, "-2.0 login page")

\* the bonuses of HIGH_VALUE_TITLE_PATTERNS[i..] that occur in the title, summed
RECURSIVE title_bonus_from(_, _)
title_bonus_from(title, i) ==
    IF i > Len(HIGH_VALUE_TITLE_PATTERNS) THEN 0
    ELSE (IF Contains(title, HIGH_VALUE_TITLE_PATTERNS[i][1])
          THEN HIGH_VALUE_TITLE_PATTERNS[i][2] ELSE 0) + title_bonus_from(title, i + 1)

\* a title bonus that adds up every matching pattern
title_bonus_summed(title) == title_bonus_from(title, 1)

\* the highest bonus of the HIGH_VALUE_TITLE_PATTERNS that occur in the title, or 0
title_bonus_of(title) ==
    SetMax({0} \union
           { HIGH_VALUE_TITLE_PATTERNS[i][2] : i \in
               { j \in 1..Len(HIGH_VALUE_TITLE_PATTERNS) :
                   Contains(title, HIGH_VALUE_TITLE_PATTERNS[j][1]) } })

\* score_result with the penalties applied to the score but not recorded
score_record_silent_penalties(doc_info, applied) ==
    Only({ [score |-> floor0(SumAmounts(steps)),
            reasons |-> [i \in 1..Len(recorded) |-> recorded[i].reason],
            document_type |-> doc_info.name,
            pricing_likely |-> doc_info.pricing_likely]
           : steps \in {applied}, recorded \in {SelectSeq(applied, LAMBDA st : st.amount > 0)} })

\* what score_result returns and stores on the result: the score (tenths), the
\* reasons, the document type and pricing_likely
score_record(doc_info, applied) ==
    Only({ [score |-> floor0(SumAmounts(steps)),
            reasons |-> [i \in 1..Len(steps) |-> steps[i].reason],
            document_type |-> doc_info.name,
            pricing_likely |-> doc_info.pricing_likely]
           : steps \in {applied} })

\* score_result on the lower-cased url and title
score_lowered(url, title, company_, product_) ==
    Only({ score_record(doc_info,
                        score_steps(url, title, title \o " " \o url, doc_info.name,
                                    title_bonus_of(title), findall_years(title \o " " \o url),
                                    company_, product_))
           : doc_info \in {classify(url, title)} })

score_result(result, company_, product_) ==
    Only({ score_lowered(url, title, company_, product_)
           : url \in {lower(result.url)}, title \in {lower(result.title)} })

(***************************************************************************)
(* Location extraction                                                     *)
(***************************************************************************)

\* the dict states of extract_location, in insertion order
states ==
    << <<"alabama", "AL">>, <<"alaska", "AK">>, <<"arizona", "AZ">>, <<"arkansas", "AR">>,
       <<"california", "CA">>, <<"colorado", "CO">>, <<"connecticut", "CT">>, <<"delaware", "DE">>,
       <<"florida", "FL">>, <<"georgia", "GA">>, <<"hawaii", "HI">>, <<"idaho", "ID">>,
       <<"illinois", "IL">>, <<"indiana", "IN">>, <<"iowa", "IA">>, <<"kansas", "KS">>,
       <<"kentucky", "KY">>, <<"louisiana", "LA">>, <<"maine", "ME">>, <<"maryland", "MD">>,
       <<"massachusetts", "MA">>, <<"michigan", "MI">>, <<"minnesota", "MN">>, <<"mississippi", "MS">>,
       <<"missouri", "MO">>, <<"montana", "MT">>, <<"nebraska", "NE">>, <<"nevada", "NV">>,
       <<"new hampshire", "NH">>, <<"new jersey", "NJ">>, <<"new mexico", "NM">>, <<"new york", "NY">>,
       <<"north carolina", "NC">>, <<"north dakota", "ND">>, <<"ohio", "OH">>, <<"oklahoma", "OK">>,
       <<"oregon", "OR">>, <<"pennsylvania", "PA">>, <<"rhode island", "RI">>, <<"south carolina", "SC">>,
       <<"south dakota", "SD">>, <<"tennessee", "TN">>, <<"texas", "TX">>, <<"utah", "UT">>,
       <<"vermont", "VT">>, <<"virginia", "VA">>, <<"washington", "WA">>, <<"west virginia", "WV">>,
       <<"wisconsin", "WI">>, <<"wyoming", "WY">>, <<"district of columbia", "DC">> >>

\* potential_state in states
is_state_name(name) == \E i \in 1..Len(states) : states[i][1] = name

\* states[name]
state_abbrev(name) == states[CHOOSE i \in 1..Len(states) : states[i][1] = name][2]

\* abbrev_to_full.get(abbrev, abbrev)
abbrev_to_full(abbrev) ==
    IF \E i \in 1..Len(states) : states[i][2] = abbrev
    THEN title_case(states[CHOOSE i \in 1..Len(states) : states[i][2] = abbrev][1])
    ELSE abbrev

\* the state codes of the citySTATE.gov pattern
gov_state_codes ==
    { "ca", "tx", "ny", "fl", "wa", "or", "az", "co", "il", "oh", "pa", "ga", "nc",
      "nj", "va", "ma", "mi", "md", "mn", "mo", "wi", "tn", "in", "ks", "ne", "nv" }

\* the dict known_cities of extract_location, in insertion order
known_cities ==
    << <<"anaheim", "CA">>, <<"berkeley", "CA">>, <<"san diego", "CA">>, <<"san francisco", "CA">>,
       <<"los angeles", "CA">>, <<"oakland", "CA">>, <<"sacramento", "CA">>, <<"fresno", "CA">>,
       <<"galveston", "TX">>, <<"houston", "TX">>, <<"dallas", "TX">>, <<"austin", "TX">>,
       <<"tacoma", "WA">>, <<"seattle", "WA">>, <<"spokane", "WA">>, <<"bellevue", "WA">>,
       <<"hillsboro", "OR">>, <<"portland", "OR">>, <<"salem", "OR">>, <<"eugene", "OR">>,
       <<"denver", "CO">>, <<"phoenix", "AZ">>, <<"goodyear", "AZ">>,
       <<"charlotte", "NC">>, <<"tampa", "FL">>, <<"miami", "FL">>, <<"brevard", "FL">>,
       <<"papillion", "NE">>, <<"omaha", "NE">>, <<"andover", "KS">>,
       <<"moreno valley", "CA">>, <<"moval", "CA">>, <<"merced", "CA">>,
       <<"washoe", "NV">>, <<"kern", "CA">>, <<"evanston", "IL">>, <<"mulberry", "FL">> >>

\* the end of the run of letters [a-z]+ that starts at position k of s
RECURSIVE LettersEnd(_, _)
LettersEnd(s, k) ==
    IF k < Len(s) /\ IsLetter(CharAt(s, k + 1)) THEN LettersEnd(s, k + 1) ELSE k

SetMin(S) == CHOOSE x \in S : \A y \in S : x <= y

\* re.search tries the start positions from the left: the first of the
\* positions at which the pattern matches, or 0
FirstMatch(positions) == IF positions = {} THEN 0 ELSE SetMin(positions)

NoMatch == [matched |-> FALSE, g1 |-> "", g2 |-> ""]

\* ([a-z]+)-([a-z]+)\.(?:civicweb|legistar) matches from position i
city_state_at(s, i) ==
    LET e1 == LettersEnd(s, i)
        e2 == LettersEnd(s, e1 + 2)
    IN /\ IsLetter(CharAt(s, i))
       /\ CharAt(s, e1 + 1) = "-"
       /\ IsLetter(CharAt(s, e1 + 2))
       /\ \/ StartsWithAt(s, e2 + 1, ".civicweb")
          \/ StartsWithAt(s, e2 + 1, ".legistar")

\* re.search(r'([a-z]+)-([a-z]+)\.(?:civicweb|legistar)', s) and its groups
match_city_state(s) ==
    LET i0 == FirstMatch({ i \in 1..Len(s) : city_state_at(s, i) })
        e1 == LettersEnd(s, i0)
    IN IF i0 = 0 THEN NoMatch
       ELSE [matched |-> TRUE, g1 |-> Slice(s, i0, e1),
             g2 |-> Slice(s, e1 + 2, LettersEnd(s, e1 + 2))]

\* ([a-z]+)(ca|tx|...)\.gov matches from position k: the run of letters before
\* ".gov" ends in a state code and has at least one letter before it
citystate_gov_at(s, k) ==
    LET e == LettersEnd(s, k) IN
    /\ IsLetter(CharAt(s, k))
    /\ e - k + 1 >= 3
    /\ Slice(s, e - 1, e) \in gov_state_codes
    /\ StartsWithAt(s, e + 1, ".gov")

\* re.search(r'(?:www\.)?([a-z]+)(ca|tx|...)\.gov', s) and its groups
match_citystate_gov(s) ==
    LET i0 == FirstMatch({ i \in 1..Len(s) :
                  \/ StartsWithAt(s, i, "www.") /\ citystate_gov_at(s, i + 4)
                  \/ citystate_gov_at(s, i) })
        k0 == IF StartsWithAt(s, i0, "www.") /\ citystate_gov_at(s, i0 + 4) THEN i0 + 4 ELSE i0
        e == LettersEnd(s, k0)
    IN IF i0 = 0 THEN NoMatch
       ELSE [matched |-> TRUE, g1 |-> Slice(s, k0, e - 2), g2 |-> Slice(s, e - 1, e)]

\* ([a-z]+)\.([a-z]{2})\.us matches from position k
name_st_us_at(s, k) ==
    LET e == LettersEnd(s, k) IN
    /\ IsLetter(CharAt(s, k))
    /\ CharAt(s, e + 1) = "."
    /\ IsLetter(CharAt(s, e + 2))
    /\ IsLetter(CharAt(s, e + 3))
    /\ StartsWithAt(s, e + 4, ".us")

\* re.search(r'(?:www\.)?([a-z]+)\.([a-z]{2})\.us', s) and its groups
match_city_st_us(s) ==
    LET i0 == FirstMatch({ i \in 1..Len(s) :
                  \/ StartsWithAt(s, i, "www.") /\ name_st_us_at(s, i + 4)
                  \/ name_st_us_at(s, i) })
        k0 == IF StartsWithAt(s, i0, "www.") /\ name_st_us_at(s, i0 + 4) THEN i0 + 4 ELSE i0
        e == LettersEnd(s, k0)
    IN IF i0 = 0 THEN NoMatch
       ELSE [matched |-> TRUE, g1 |-> Slice(s, k0, e), g2 |-> Slice(s, e + 2, e + 3)]

\* re.search(r'co\.([a-z]+)\.([a-z]{2})\.us', s) and its groups
match_co_county_st_us(s) ==
    LET i0 == FirstMatch({ i \in 1..Len(s) :
                  StartsWithAt(s, i, "co.") /\ name_st_us_at(s, i + 3) })
        e == LettersEnd(s, i0 + 3)
    IN IF i0 = 0 THEN NoMatch
       ELSE [matched |-> TRUE, g1 |-> Slice(s, i0 + 3, e), g2 |-> Slice(s, e + 2, e + 3)]

state_level_words == { "state", "das", "dgs", "doa" }

\* w\.([a-z]{2})\.(?:us|gov) matches from position i
state_level_at(s, i, w) ==
    LET k == i + Len(w) IN
    /\ StartsWithAt(s, i, w \o ".")
    /\ IsLetter(CharAt(s, k + 1))
    /\ IsLetter(CharAt(s, k + 2))
    /\ \/ StartsWithAt(s, k + 3, ".us")
       \/ StartsWithAt(s, k + 3, ".gov")

\* re.search(r'(?:state|das|dgs|doa)\.([a-z]{2})\.(?:us|gov)', s): g1 is the state code
match_state_level(s) ==
    LET i0 == FirstMatch({ i \in 1..Len(s) : \E w \in state_level_words : state_level_at(s, i, w) })
        w0 == CHOOSE w \in state_level_words : state_level_at(s, i0, w)
        k == i0 + Len(w0)
    IN IF i0 = 0 THEN NoMatch
       ELSE [matched |-> TRUE, g1 |-> Slice(s, k + 1, k + 2), g2 |-> ""]

\* the first known city (in the dict's order) that occurs in the text, or 0
first_known_city(text) ==
    IF \E i \in 1..Len(known_cities) : Contains(text, known_cities[i][1])
    THEN CHOOSE i \in 1..Len(known_cities) :
            /\ Contains(text, known_cities[i][1])
            /\ \A j \in 1..(i - 1) : ~Contains(text, known_cities[j][1])
    ELSE 0

\* what extract_location has found so far.  None is the empty string (both are
\* falsy in the code's tests)
NothingFound == [city |-> "", county |-> "", st |-> "", lvl |-> FALSE]

\* pattern 1, city-state.civicweb.net or .legistar.com
rule_city_state(found, m) ==
    IF m.matched /\ is_state_name(m.g2)
    THEN [found EXCEPT !.city = title_case(m.g1), !.st = state_abbrev(m.g2)]
    ELSE found

\* patterns 2 and 3, citySTATE.gov and city.ST.us
rule_city(found, m) ==
    IF found.city = "" /\ m.matched
    THEN [found EXCEPT !.city = title_case(m.g1), !.st = upper(m.g2)]
    ELSE found

\* pattern 4, co.county.ST.us
rule_county(found, m) ==
    IF found.city = "" /\ m.matched
    THEN [found EXCEPT !.county = title_case(m.g1), !.st = upper(m.g2)]
    ELSE found

\* pattern 5, state.ST.us and the like
rule_state_level(found, m) ==
    IF found.city = "" /\ found.county = "" /\ m.matched
    THEN [found EXCEPT !.st = upper(m.g1), !.lvl = TRUE]
    ELSE found

\* pattern 6, the known cities; c is the first known city in the text, or 0
rule_known_city(found, c, text) ==
    IF found.city = "" /\ found.county = "" /\ c # 0
    THEN [found EXCEPT
            !.county = IF Contains(text, "county") THEN title_case(known_cities[c][1]) ELSE @,
            !.city = IF Contains(text, "county") THEN @ ELSE title_case(known_cities[c][1]),
            !.st = IF @ = "" THEN known_cities[c][2] ELSE @]
    ELSE found

\* extract_location composing the county after a city-style fragment
location_text_combined(found) ==
    IF found.lvl /\ found.st # "" THEN "State of " \o abbrev_to_full(found.st)
    ELSE IF found.county # "" /\ found.st # ""
    THEN found.county \o ", " \o found.county \o " County, " \o found.st
    ELSE IF found.city # "" /\ found.st # "" THEN found.city \o ", " \o found.st
    ELSE IF found.city # "" THEN found.city
    ELSE IF found.st # "" THEN found.st
    ELSE "Unknown"

\* the string extract_location builds from what it found
location_text(found) ==
    IF found.lvl /\ found.st # "" THEN "State of " \o abbrev_to_full(found.st)
    ELSE IF found.county # "" /\ found.st # "" THEN found.county \o " County, " \o found.st
    ELSE IF found.city # "" /\ found.st # "" THEN found.city \o ", " \o found.st
    ELSE IF found.city # "" THEN found.city
    ELSE IF found.st # "" THEN found.st
    ELSE "Unknown"

\* the patterns of extract_location in the order the code tries them
location_found(domain, text) ==
    Only({ f6 :
      f6 \in { rule_known_city(f5, c, text) : c \in {first_known_city(text)},
      f5 \in { rule_state_level(f4, m5) : m5 \in {match_state_level(domain)},
      f4 \in { rule_county(f3, m4) : m4 \in {match_co_county_st_us(domain)},
      f3 \in { rule_city(f2, m3) : m3 \in {match_city_st_us(domain)},
      f2 \in { rule_city(f1, m2) : m2 \in {match_citystate_gov(domain)},
      f1 \in { rule_city_state(NothingFound, m1) : m1 \in {match_city_state(domain)} } } } } } } })

extract_location(url, title) ==
    Only({ location_text(found) :
           found \in { location_found(domain, text) :
                       domain \in {get_domain(url)},
                       text \in {lower(url) \o " " \o lower(title)} } })

(***************************************************************************)
(* Deduplication and location diversity                                    *)
(***************************************************************************)

\* s.split(sep): the pieces of s between the occurrences of the character sep
RECURSIVE split(_, _)
split(s, sep) ==
    LET i == Find(s, sep) IN
    IF i = 0 THEN <<s>>
    ELSE <<Slice(s, 1, i - 1)>> \o split(Slice(s, i + 1, Len(s)), sep)

\* sep.join(parts)
RECURSIVE join(_, _)
join(parts, sep) ==
    IF parts = <<>> THEN ""
    ELSE IF Len(parts) = 1 THEN parts[1]
    ELSE parts[1] \o sep \o join(Tail(parts), sep)

\* s.replace(old, new) for a one-character old
replace(s, old, new) == join(split(s, old), new)

\* s.rstrip('/')
RECURSIVE rstrip_slash(_)
rstrip_slash(s) ==
    IF EndsWith(s, "/") THEN rstrip_slash(Slice(s, 1, Len(s) - 1)) ELSE s

\* [p for p in params if keep(p)]
RECURSIVE keep_params(_)
keep_params(params) ==
    IF params = <<>> THEN <<>>
    ELSE LET p == Head(params)
             kept == \E k \in {"id=", "doc=", "file="} : Contains(p, k)
         IN (IF kept THEN <<p>> ELSE <<>>) \o keep_params(Tail(params))

\* base + ('?' + '&'.join(keep) if keep else '') for a url that holds '?' at q
drop_params(u, q) ==
    Only({ Slice(u, 1, q - 1) \o (IF keep # <<>> THEN "?" \o join(keep, "&") ELSE "")
           : keep \in { keep_params(split(Slice(u, q + 1, Len(u)), "&")) } })

normalize_url(url) ==
    Only({ IF Find(u, "?") = 0 THEN u ELSE drop_params(u, Find(u, "?"))
           : u \in { rstrip_slash(split(lower(url), "#")[1]) } })

\* the position of the key norm in the dict seen (a sequence of entries in
\* insertion order), or 0
seen_index(seen, norm) ==
    IF \E i \in 1..Len(seen) : seen[i].norm = norm
    THEN CHOOSE i \in 1..Len(seen) : seen[i].norm = norm
    ELSE 0

\* the iteration with >= for >: on equal scores the later candidate replaces the earlier
dedup_step_last_wins(seen, norm, k, result) ==
    IF k = 0 THEN Append(seen, [norm |-> norm, result |-> result])
    ELSE IF result.relevance_score >= seen[k].result.relevance_score
    THEN [seen EXCEPT ![k].result = result]
    ELSE seen

\* the iteration that stores the candidate with its url replaced by the key
dedup_step_rewriting(seen, norm, k, result) ==
    IF k = 0 THEN Append(seen, [norm |-> norm, result |-> [result EXCEPT !.url = norm]])
    ELSE IF result.relevance_score > seen[k].result.relevance_score
    THEN [seen EXCEPT ![k].result = [result EXCEPT !.url = norm]]
    ELSE seen

\* one iteration of the loop of deduplicate_results: seen after result is met
dedup_step(seen, norm, k, result) ==
    IF k = 0 THEN Append(seen, [norm |-> norm, result |-> result])
    ELSE IF result.relevance_score > seen[k].result.relevance_score
    THEN [seen EXCEPT ![k].result = result]
    ELSE seen

\* the loop of deduplicate_results over results[i..]
RECURSIVE dedup_loop(_, _, _)
dedup_loop(results, i, seen_so_far) ==
    IF i > Len(results) THEN seen_so_far
    ELSE Only({ dedup_loop(results, i + 1,
                           dedup_step(seen, norm, seen_index(seen, norm), results[i]))
                : seen \in {seen_so_far}, norm \in {normalize_url(results[i].url)} })

\* deduplicate_results: list(seen.values())
deduplicate_results(given) ==
    Only({ [i \in 1..Len(seen) |-> seen[i].result]
           : seen \in { Only({ dedup_loop(results, 1, <<>>) : results \in {given} }) } })

\* insertion that puts a result before the results of equal score: a
\* descending sort that reverses the order of equal scores
RECURSIVE insert_desc_before_equal(_, _)
insert_desc_before_equal(sorted, r) ==
    IF sorted = <<>> THEN <<r>>
    ELSE IF Head(sorted).relevance_score > r.relevance_score
    THEN <<Head(sorted)>> \o insert_desc_before_equal(Tail(sorted), r)
    ELSE <<r>> \o sorted

\* the position at which insertion keeps sorted (descending, stable) order
RECURSIVE insert_desc(_, _)
insert_desc(sorted, r) ==
    IF sorted = <<>> THEN <<r>>
    ELSE IF Head(sorted).relevance_score >= r.relevance_score
    THEN <<Head(sorted)>> \o insert_desc(Tail(sorted), r)
    ELSE <<r>> \o sorted

RECURSIVE sort_from(_, _, _)
sort_from(results, i, sorted_so_far) ==
    IF i > Len(results) THEN sorted_so_far
    ELSE Only({ sort_from(results, i + 1, sorted)
                : sorted \in { Only({ insert_desc(s, results[i]) : s \in {sorted_so_far} }) } })

\* results.sort(key=relevance_score, reverse=True): stable, descending
sort_by_score(given) ==
    Only({ sort_from(results, 1, <<>>) : results \in {given} })

penalty_per_duplicate == 15
max_penalty == 40

Min(a, b) == IF a < b THEN a ELSE b

diversity_penalty_uncapped(count) == count * penalty_per_duplicate

\* the penalty of a candidate whose location was counted count times before it
diversity_penalty(count) == Min(count * penalty_per_duplicate, max_penalty)

\* the text of a natural number
RECURSIVE NatText(_)
NatText(n) ==
    IF n < 10 THEN CharAt(DigitChars, n + 1)
    ELSE NatText(n \div 10) \o CharAt(DigitChars, (n % 10) + 1)

\* f"{x:.1f}" of a score held in tenths
TenthsText(x) == NatText(x \div 10) \o "." \o NatText(x % 10)

\* location_counts.get(location, 0)
count_of(location_counts, location) ==
    IF location \in DOMAIN location_counts THEN location_counts[location] ELSE 0

\* apply_location_diversity with the penalty entry replacing the breakdown
penalize_overwriting(located, count, penalty) ==
    IF count > 0
    THEN [located EXCEPT
            !.relevance_score = floor0(@ - penalty),
            !.score_breakdown = <<"-" \o TenthsText(penalty) \o " location #"
                                  \o NatText(count + 1)>>,
            !.diversity_penalty = penalty]
    ELSE located

\* one iteration of the loop of apply_location_diversity on a result whose
\* location is known and was counted count times before
penalize(located, count, penalty) ==
    IF count > 0
    THEN [located EXCEPT
            !.relevance_score = floor0(@ - penalty),
            !.score_breakdown = Append(@, "-" \o TenthsText(penalty) \o " location #"
                                          \o NatText(count + 1)),
            !.diversity_penalty = penalty]
    ELSE located

\* the loop of apply_location_diversity over results[i..], results updated in place
RECURSIVE diversity_loop(_, _, _)
diversity_loop(results_so_far, i, counts_so_far) ==
    IF i > Len(results_so_far) THEN results_so_far
    ELSE Only({
        IF location = "Unknown"
        THEN diversity_loop([results EXCEPT ![i].location = location], i + 1, location_counts)
        ELSE diversity_loop(
                [results EXCEPT ![i] = penalize([@ EXCEPT !.location = location],
                                                count_of(location_counts, location),
                                                diversity_penalty(count_of(location_counts, location)))],
                i + 1,
                (location :> (count_of(location_counts, location) + 1)) @@ location_counts)
        : results \in {results_so_far}, location_counts \in {counts_so_far},
          location \in { extract_location(results_so_far[i].url, results_so_far[i].title) } })

\* the counter an earlier call left behind: how often each location stands on
\* the candidates that call located
counts_left(results) ==
    [location \in { results[i].location : i \in 1..Len(results) } \ {"", "Unknown"} |->
        Cardinality({ i \in 1..Len(results) : results[i].location = location })]

\* apply_location_diversity with location_counts kept from the call before
apply_location_diversity_counts_kept(results) ==
    sort_by_score(diversity_loop(results, 1, counts_left(results)))

\* apply_location_diversity: location_counts starts empty on every call
apply_location_diversity(results) ==
    sort_by_score(diversity_loop(results, 1, <<>>))

(***************************************************************************)
(* Scoring a batch of search results                                       *)
(***************************************************************************)

NoAnalysis ==
    [status |-> "none", prices_found |-> FALSE, has_product |-> FALSE,
     has_company |-> FALSE, term |-> FALSE]

\* the candidate process_results appends for an admitted result.  A key the
\* program has not set yet holds "", 0, "unset" or NoAnalysis
scored(result, company_, product_, reason) ==
    Only({ [title |-> result.title, url |-> result.url,
            relevance_score |-> s.score, score_breakdown |-> s.reasons,
            include_reason |-> reason,
            document_type |-> s.document_type, pricing_likely |-> s.pricing_likely,
            location |-> "", diversity_penalty |-> 0,
            link_valid |-> "unset", link_status |-> 0, link_status_reason |-> "",
            content_analysis |-> NoAnalysis, adjusted |-> FALSE, content_score_adjustment |-> 0]
           : s \in { score_result(result, company_, product_) } })

\* the loop of process_results.  Whether a result is included, and the reason
\* of an included one, do not depend on which blocked entry is_blocked_domain names
RECURSIVE process_loop(_, _, _, _)
process_loop(results, i, company_, product_) ==
    IF i > Len(results) THEN <<>>
    ELSE LET result == results[i]
             f == filter_result(result, company_, product_,
                                CHOOSE b \in is_blocked_domain(result.url) : TRUE)
         IN (IF f.include THEN <<scored(result, company_, product_, f.reason)>> ELSE <<>>)
            \o process_loop(results, i + 1, company_, product_)

process_results(results, company_, product_) ==
    sort_by_score(process_loop(results, 1, company_, product_))

(***************************************************************************)
(* ContentAnalyzer: the prices of a document text                          *)
(***************************************************************************)

\* the characters \s matches that occur in extracted text
SpaceChars == { " ", "\n", "\t" }

\* the first position >= i of s whose character is not in chars
RECURSIVE SkipChars(_, _, _)
SkipChars(s, i, chars) ==
    IF i <= Len(s) /\ CharAt(s, i) \in chars THEN SkipChars(s, i + 1, chars) ELSE i

\* the strings matched by  a [- ] b
dash_or_space(a, b) == { a \o "-" \o b, a \o " " \o b }

\* PRICE_PATTERNS in order.  A pattern with lead words is
\*   (?:lead)\s*(?:second)[:\s]*\$?(amount)   (second empty: (?:lead)[:\s]*\$?(amount));
\* a pattern with tail words is   \$(amount)\s*(?:tail)
PRICE_PATTERNS ==
    << [lead |-> {"total", "contract", "agreement"},
        second |-> {"amount", "value", "price", "cost"}, tail |-> {}, label |-> "Total Value"],
       [lead |-> UNION { dash_or_space(n, "exceed") : n \in dash_or_space("not", "to") },
        second |-> {}, tail |-> {}, label |-> "Not to Exceed"],
       [lead |-> {"annual", "yearly"},
        second |-> {"fee", "cost", "subscription", "amount"}, tail |-> {}, label |-> "Annual Fee"],
       [lead |-> {"monthly"},
        second |-> {"fee", "cost", "subscription"}, tail |-> {}, label |-> "Monthly Fee"],
       [lead |-> dash_or_space("one", "time") \union {"implementation", "setup"},
        second |-> {"fee", "cost"}, tail |-> {}, label |-> "One-time Fee"],
       [lead |-> {"license", "licensing"},
        second |-> {"fee", "cost"}, tail |-> {}, label |-> "License Fee"],
       [lead |-> {"maintenance", "support"},
        second |-> {"fee", "cost"}, tail |-> {}, label |-> "Maintenance Fee"],
       [lead |-> {"professional services", "consulting", "implementation services"},
        second |-> {}, tail |-> {}, label |-> "Services Fee"],
       [lead |-> {}, second |-> {}, tail |-> {"per year", "annually", "/year"},
        label |-> "Per Year"],
       [lead |-> {}, second |-> {}, tail |-> {"per month", "monthly", "/month"},
        label |-> "Per Month"] >>

\* the position after the one of the words that starts at position i of s, or 0
after_word(s, i, words) ==
    IF \E w \in words : StartsWithAt(s, i, w)
    THEN i + Len(CHOOSE w \in words : StartsWithAt(s, i, w))
    ELSE 0

\* ([\d,]+(?:\.\d{2})?) from position k of s: the position after the group, or 0
amount_end(s, k) ==
    Only({ IF e = k THEN 0
           ELSE IF CharAt(s, e) = "." /\ IsDigit(CharAt(s, e + 1)) /\ IsDigit(CharAt(s, e + 2))
           THEN e + 3
           ELSE e
           : e \in {SkipChars(s, k, Digits \union {","})} })

NoPrice == [from |-> 0, to |-> 0, next |-> 0]

\* the group of a lead-word pattern when its amount is expected at position k
lead_amount(s, k) ==
    Only({ IF amount_end(s, g) = 0 THEN NoPrice
           ELSE [from |-> g, to |-> amount_end(s, g) - 1, next |-> amount_end(s, g)]
           : g \in { IF CharAt(s, c) = "$" THEN c + 1 ELSE c
                     : c \in {SkipChars(s, k, SpaceChars \union {":"})} } })

\* the match of a price pattern that starts at position i of s: where its group
\* lies and where the match ends, or NoPrice
price_match_at(s, i, pattern) ==
    IF pattern.tail # {}
    THEN IF CharAt(s, i) # "$" \/ amount_end(s, i + 1) = 0 THEN NoPrice
         ELSE Only({ IF after_word(s, SkipChars(s, e, SpaceChars), pattern.tail) = 0
                     THEN NoPrice
                     ELSE [from |-> i + 1, to |-> e - 1,
                           next |-> after_word(s, SkipChars(s, e, SpaceChars), pattern.tail)]
                     : e \in {amount_end(s, i + 1)} })
    ELSE IF after_word(s, i, pattern.lead) = 0 THEN NoPrice
    ELSE IF pattern.second = {} THEN lead_amount(s, after_word(s, i, pattern.lead))
    ELSE Only({ IF after_word(s, k, pattern.second) = 0 THEN NoPrice
                ELSE lead_amount(s, after_word(s, k, pattern.second))
                : k \in {SkipChars(s, after_word(s, i, pattern.lead), SpaceChars)} })

\* the groups of the matches at the positions starts that re.finditer yields
\* from position i on: left to right, none starting inside the one before it
RECURSIVE matches_from(_, _, _, _)
matches_from(s, i, pattern, starts) ==
    IF \A k \in starts : k < i THEN <<>>
    ELSE Only({ <<Slice(s, m.from, m.to)>> \o matches_from(s, m.next, pattern, starts)
                : m \in {price_match_at(s, SetMin({ k \in starts : k >= i }), pattern)} })

\* re.finditer(pattern, s): the groups of the matches
finditer_prices(s, pattern) ==
    matches_from(s, 1, pattern,
                 { i \in 1..Len(s) : price_match_at(s, i, pattern).next # 0 })

\* the value of a string of digits
RECURSIVE DigitsValue(_)
DigitsValue(ds) ==
    IF ds = "" THEN 0
    ELSE DigitsValue(Slice(ds, 1, Len(ds) - 1)) * 10 + DigitValue(CharAt(ds, Len(ds)))

\* float(amount_str.replace(',', '')) in cents, or -1 when float() raises
\* (the group held commas only)
parse_amount(amount_str) ==
    Only({ IF plain = "" THEN -1
           ELSE IF Len(plain) >= 3 /\ CharAt(plain, Len(plain) - 2) = "."
           THEN DigitsValue(Slice(plain, 1, Len(plain) - 3)) * 100
                + DigitsValue(Slice(plain, Len(plain) - 1, Len(plain)))
           ELSE DigitsValue(plain) * 100
           : plain \in {replace(amount_str, ",", "")} })

\* the amount below which a match is dropped (100, in cents) and the length the
\* list is cut to
min_amount == 10000
max_prices == 8

\* the entries the extraction loop appends for one pattern
RECURSIVE price_entries(_, _)
price_entries(groups, label) ==
    IF groups = <<>> THEN <<>>
    ELSE (IF parse_amount(Head(groups)) >= min_amount
          THEN <<[amount |-> parse_amount(Head(groups)), type |-> label]>>
          ELSE <<>>)
         \o price_entries(Tail(groups), label)

\* the extraction loop over PRICE_PATTERNS[n..]
RECURSIVE extract_prices(_, _)
extract_prices(text_lower, n) ==
    IF n > Len(PRICE_PATTERNS) THEN <<>>
    ELSE price_entries(finditer_prices(text_lower, PRICE_PATTERNS[n]), PRICE_PATTERNS[n].label)
         \o extract_prices(text_lower, n + 1)

\* sorted(prices, key=amount, reverse=True): stable, equal amounts keep their order
RECURSIVE insert_by_amount(_, _)
insert_by_amount(sorted, p) ==
    IF sorted = <<>> THEN <<p>>
    ELSE IF Head(sorted).amount >= p.amount
    THEN <<Head(sorted)>> \o insert_by_amount(Tail(sorted), p)
    ELSE <<p>> \o sorted

RECURSIVE sort_prices(_, _, _)
sort_prices(prices, i, sorted_so_far) ==
    IF i > Len(prices) THEN sorted_so_far
    ELSE sort_prices(prices, i + 1, insert_by_amount(sorted_so_far, prices[i]))

\* the deduplication loop: an entry is kept when its amount was not seen before
RECURSIVE unique_prices(_, _)
unique_prices(sorted, seen_amounts) ==
    IF sorted = <<>> THEN <<>>
    ELSE IF Head(sorted).amount \in seen_amounts
    THEN unique_prices(Tail(sorted), seen_amounts)
    ELSE <<Head(sorted)>> \o unique_prices(Tail(sorted), seen_amounts \union {Head(sorted).amount})

\* the list cut to max_prices before the duplicates are removed
prices_found_cut_first(entries) ==
    Only({ unique_prices(SubSeq(sorted, 1, Min(Len(sorted), max_prices)), {})
           : sorted \in {sort_prices(entries, 1, <<>>)} })

\* prices_found from the appended entries: sorted, deduplicated, cut to max_prices
prices_found_of(entries) ==
    Only({ SubSeq(unique, 1, Min(Len(unique), max_prices))
           : unique \in {unique_prices(sort_prices(entries, 1, <<>>), {})} })

\* ContentAnalyzer.analyze: the prices and the entity mentions of its result
analyze(text, company_, product_) ==
    Only({ [prices_found |-> prices_found_of(extract_prices(text_lower, 1)),
            has_company |-> Contains(text_lower, lower(company_)),
            has_product |-> Contains(text_lower, lower(product_))]
           : text_lower \in {lower(text)} })

\* what download_pdf and download_pdf_via_browser can return: None, an empty
\* body, or the bytes of a document; the first two are false in a condition
DownloadOutcomes == { "None", "empty", "bytes" }

\* not text.strip()
blank(text) == SkipChars(text, 1, SpaceChars) > Len(text)

\* analyze_pdf_document with the browser download made whatever the direct
\* download returned
analyze_pdf_document_both_downloads(url, company_, product_, direct, browser, text) ==
    LET tried == <<"download_pdf", "download_pdf_via_browser">>
        download_method == IF direct = "bytes" THEN "direct"
                           ELSE IF browser = "bytes" THEN "browser"
                           ELSE "None"
        result == [status |-> "unknown", analysis |-> <<>>, error |-> "None",
                   download_method |-> download_method, calls |-> tried]
    IN
    IF download_method = "None"
    THEN [result EXCEPT !.status = "download_failed",
                        !.error = "Could not download PDF (tried direct + browser)"]
    ELSE IF blank(text)
    THEN [result EXCEPT !.status = "no_text",
                        !.error = "Could not extract text (may be scanned/image PDF)",
                        !.calls = tried \o <<"extract_pdf_text">>]
    ELSE [result EXCEPT !.status = "analyzed",
                        !.analysis = <<analyze(text, company_, product_)>>,
                        !.calls = tried \o <<"extract_pdf_text", "ContentAnalyzer.analyze">>]

\* analyze_pdf_document, given what each download returns when it is called and
\* the text extract_pdf_text returns; calls lists the functions it called, and
\* 'analysis' is <<>> for None and holds the analysis otherwise
analyze_pdf_document(url, company_, product_, direct, browser, text) ==
    LET tried == IF direct = "bytes" THEN <<"download_pdf">>
                 ELSE <<"download_pdf", "download_pdf_via_browser">>
        download_method == IF direct = "bytes" THEN "direct"
                           ELSE IF browser = "bytes" THEN "browser"
                           ELSE "None"
        result == [status |-> "unknown", analysis |-> <<>>, error |-> "None",
                   download_method |-> download_method, calls |-> tried]
    IN
    IF download_method = "None"
    THEN [result EXCEPT !.status = "download_failed",
                        !.error = "Could not download PDF (tried direct + browser)"]
    ELSE IF blank(text)
    THEN [result EXCEPT !.status = "no_text",
                        !.error = "Could not extract text (may be scanned/image PDF)",
                        !.calls = tried \o <<"extract_pdf_text">>]
    ELSE [result EXCEPT !.status = "analyzed",
                        !.analysis = <<analyze(text, company_, product_)>>,
                        !.calls = tried \o <<"extract_pdf_text", "ContentAnalyzer.analyze">>]

(***************************************************************************)
(* Content analysis and rescoring                                          *)
(***************************************************************************)

\* rescore_after_analysis with the floor applied after every adjustment
rescore_one_floor_each_step(result, company_, product_) ==
    LET ca == result.content_analysis
        adjustments ==
            Bonus(ca.prices_found, 20, "+2.0 pricing found")
            \o (IF ca.has_product THEN Bonus(TRUE, 15, "+1.5 " \o product_ \o " mentioned")
                ELSE Bonus(TRUE, -20, "-2.0 " \o product_ \o " NOT mentioned"))
            \o (IF ca.has_company THEN Bonus(TRUE, 10, "+1.0 " \o company_ \o " mentioned")
                ELSE Bonus(TRUE, -15, "-1.5 " \o company_ \o " NOT mentioned"))
            \o Bonus(ca.term, 5, "+0.5 term found")
        s1 == floor0(result.relevance_score + (IF ca.prices_found THEN 20 ELSE 0))
        s2 == floor0(s1 + (IF ca.has_product THEN 15 ELSE -20))
        s3 == floor0(s2 + (IF ca.has_company THEN 10 ELSE -15))
        new_score == floor0(s3 + (IF ca.term THEN 5 ELSE 0))
    IN IF ca.status # "analyzed" THEN result
       ELSE [result EXCEPT
               !.relevance_score = new_score,
               !.score_breakdown = result.score_breakdown
                                   \o [i \in 1..Len(adjustments) |-> adjustments[i].reason],
               !.adjusted = TRUE,
               !.content_score_adjustment = new_score - result.relevance_score]

\* rescore_after_analysis treating a document that was not analysed as one
\* that mentions neither the product nor the company
rescore_one_counting_failures(result, company_, product_) ==
    LET ca == result.content_analysis
        adjustments ==
            Bonus(ca.prices_found, 20, "+2.0 pricing found")
            \o (IF ca.has_product THEN Bonus(TRUE, 15, "+1.5 " \o product_ \o " mentioned")
                ELSE Bonus(TRUE, -20, "-2.0 " \o product_ \o " NOT mentioned"))
            \o (IF ca.has_company THEN Bonus(TRUE, 10, "+1.0 " \o company_ \o " mentioned")
                ELSE Bonus(TRUE, -15, "-1.5 " \o company_ \o " NOT mentioned"))
            \o Bonus(ca.term, 5, "+0.5 term found")
        new_score == floor0(result.relevance_score + SumAmounts(adjustments))
    IN IF ca.status = "none" THEN result
       ELSE [result EXCEPT
               !.relevance_score = new_score,
               !.score_breakdown = result.score_breakdown
                                   \o [i \in 1..Len(adjustments) |-> adjustments[i].reason],
               !.adjusted = TRUE,
               !.content_score_adjustment = new_score - result.relevance_score]

\* rescore_after_analysis for one result
rescore_one(result, company_, product_) ==
    LET ca == result.content_analysis
        adjustments ==
            Bonus(ca.prices_found, 20, "+2.0 pricing found")
            \o (IF ca.has_product THEN Bonus(TRUE, 15, "+1.5 " \o product_ \o " mentioned")
                ELSE Bonus(TRUE, -20, "-2.0 " \o product_ \o " NOT mentioned"))
            \o (IF ca.has_company THEN Bonus(TRUE, 10, "+1.0 " \o company_ \o " mentioned")
                ELSE Bonus(TRUE, -15, "-1.5 " \o company_ \o " NOT mentioned"))
            \o Bonus(ca.term, 5, "+0.5 term found")
        new_score == floor0(result.relevance_score + SumAmounts(adjustments))
    IN IF ca.status # "analyzed" THEN result
       ELSE [result EXCEPT
               !.relevance_score = new_score,
               !.score_breakdown = result.score_breakdown
                                   \o [i \in 1..Len(adjustments) |-> adjustments[i].reason],
               !.adjusted = TRUE,
               !.content_score_adjustment = new_score - result.relevance_score]

\* rescore_after_analysis without the closing sort
rescore_after_analysis_unsorted(results, company_, product_) ==
    [i \in 1..Len(results) |-> rescore_one(results[i], company_, product_)]

rescore_after_analysis(results, company_, product_) ==
    sort_by_score([i \in 1..Len(results) |-> rescore_one(results[i], company_, product_)])

\* what analyze_pdf_document can leave in content_analysis for one document,
\* and 'error' when it raises
AnalysisOutcomes ==
    { [NoAnalysis EXCEPT !.status = st] : st \in {"download_failed", "no_text", "error"} }
    \union [status : {"analyzed"}, prices_found : BOOLEAN, has_product : BOOLEAN,
            has_company : BOOLEAN, term : BOOLEAN]

\* the positions of the first max_to_analyze results whose url holds '.pdf'
RECURSIVE pdf_positions(_, _, _)
pdf_positions(results, i, left) ==
    IF i > Len(results) \/ left = 0 THEN {}
    ELSE IF is_pdf_url(results[i].url)
    THEN {i} \union pdf_positions(results, i + 1, left - 1)
    ELSE pdf_positions(results, i + 1, left)

\* batch_analyze_documents with the try around the whole loop: the first
\* exception ends the analysis of the later documents
batch_analyze_documents_aborting(results, company_, product_, max_to_analyze, outcome) ==
    LET selected == pdf_positions(results, 1, max_to_analyze)
        reached == { i \in selected :
                        \A j \in selected : j < i => outcome[j].status # "error" }
    IN
    IF selected = {} THEN results
    ELSE rescore_after_analysis(
            [i \in 1..Len(results) |->
                IF i \in reached THEN [results[i] EXCEPT !.content_analysis = outcome[i]]
                ELSE results[i]],
            company_, product_)

\* batch_analyze_documents, given the outcome of each analysed document
batch_analyze_documents(results, company_, product_, max_to_analyze, outcome) ==
    LET selected == pdf_positions(results, 1, max_to_analyze) IN
    IF selected = {} THEN results
    ELSE rescore_after_analysis(
            [i \in 1..Len(results) |->
                IF i \in selected THEN [results[i] EXCEPT !.content_analysis = outcome[i]]
                ELSE results[i]],
            company_, product_)

(***************************************************************************)
(* Link validation                                                         *)
(***************************************************************************)

\* hosts that may fail to answer a probe
UnreachableHosts == { "news.example.com" }

\* check_link_validity when the hosts of down do not answer: the triple it
\* returns, as the outcome of a probe (it catches every exception: raised is FALSE)
check_link_validity(url, down) ==
    IF get_domain(url) \in down
    THEN [is_valid |-> "False", status |-> 0, reason |-> "Connection Error", raised |-> FALSE]
    ELSE [is_valid |-> "True", status |-> 200, reason |-> "OK", raised |-> FALSE]

max_to_check == 30

\* results[:max_to_check] of validate_links_batch: the urls that are submitted
urls_to_check(results) ==
    [i \in 1..Min(Len(results), max_to_check) |-> results[i].url]

\* the as_completed loop without its except branch: a probe that raised leaves
\* no entry
probe_completed_dropping_raised(results, url, probe) ==
    IF probe.raised THEN results
    ELSE (url :> [is_valid |-> probe.is_valid, status |-> probe.status,
                  reason |-> probe.reason])
         @@ results

\* the body of the as_completed loop of batch_check_links: the entry of the
\* url is set to what the probe returned, or to (False, 0, str(e)[:50]) when
\* future.result() raised e; an entry the url already had is replaced
probe_completed(results, url, probe) ==
    (url :> (IF probe.raised
             THEN [is_valid |-> "False", status |-> 0, reason |-> Slice(probe.reason, 1, 50)]
             ELSE [is_valid |-> probe.is_valid, status |-> probe.status,
                   reason |-> probe.reason]))
    @@ results

\* batch_check_links when the submitted probes return probes[i] and complete in
\* the order of the positions in completed
RECURSIVE batch_check_links(_, _, _)
batch_check_links(urls, probes, completed) ==
    IF completed = <<>> THEN <<>>
    ELSE Only({ probe_completed(batch_check_links(urls, probes, SubSeq(completed, 1, last - 1)),
                                urls[completed[last]], probes[completed[last]])
                : last \in {Len(completed)} })

\* the loop of validate_links_batch that writes the map on the candidates.  A
\* link_status of None is held as -1
write_validity(results, validity) ==
    [i \in 1..Len(results) |->
        IF results[i].url \in DOMAIN validity
        THEN Only({ [results[i] EXCEPT !.link_valid = v.is_valid, !.link_status = v.status,
                                       !.link_status_reason = v.reason]
                    : v \in {validity[results[i].url]} })
        ELSE [results[i] EXCEPT !.link_valid = "None", !.link_status = -1,
                                !.link_status_reason = "Not checked"]]

\* validate_links_batch when the hosts of down do not answer: the first
\* max_to_check urls are probed
validate_links_batch(results, down) ==
    Only({ write_validity(results,
                          batch_check_links(urls,
                                            [i \in 1..Len(urls) |->
                                                check_link_validity(urls[i], down)],
                                            [i \in 1..Len(urls) |-> i]))
           : urls \in {urls_to_check(results)} })

\* [r for r in all_results if r.get('link_valid') is not False]
RECURSIVE remove_broken_links(_)
remove_broken_links(results) ==
    IF results = <<>> THEN <<>>
    ELSE (IF Head(results).link_valid = "False" THEN <<>> ELSE <<Head(results)>>)
         \o remove_broken_links(Tail(results))

(***************************************************************************)
(* Saving the results                                                      *)
(***************************************************************************)

\* str() and json.dumps() of a score: the repr of the float, held in tenths.
\* Both files print the same Python object, so a score that max(x, 0) left as
\* the int 0 prints alike in both
float_text(x) == TenthsText(x)

\* 'rank': i + 1 for i of enumerate(results), which counts from 0
json_rank(i) == i + 1

\* the i of enumerate(results, 1) for the k-th result
csv_rank_from_zero(k) == k - 1

csv_rank(k) == k

\* analysis.get('summary', '') of an analysed document
summary_text == "Acme \"Widget\" contract, 3 years\nPricing found"

\* the results array of the JSON output, numbers as json.dump prints them
json_results(results) ==
    [k \in 1..Len(results) |->
        [rank |-> NatText(json_rank(k - 1)),
         score |-> float_text(results[k].relevance_score),
         title |-> results[k].title,
         url |-> results[k].url,
         location |-> IF results[k].location = "" THEN "Unknown" ELSE results[k].location,
         document_type |-> results[k].document_type,
         score_breakdown |-> results[k].score_breakdown]]

\* "HIGH" if score >= 7 else ("MEDIUM" if score >= 5 else "LOW")
csv_category(score) == IF score >= 70 THEN "HIGH" ELSE IF score >= 50 THEN "MEDIUM" ELSE "LOW"

\* the link column; "v" and "x" stand for the check mark and the cross
csv_link_status(valid) == IF valid = "True" THEN "v" ELSE IF valid = "False" THEN "x" ELSE "?"

\* the content summary column before it is escaped
csv_content_summary(ca) ==
    IF ca.status = "analyzed" THEN summary_text
    ELSE IF ca.status = "no_text" THEN "Could not extract text (scanned PDF)"
    ELSE IF ca.status = "download_failed" THEN "Download failed"
    ELSE "Not analyzed"

\* one row of the CSV output, with its line end
csv_row(i, r) ==
    NatText(i) \o "," \o float_text(r.relevance_score) \o "," \o csv_category(r.relevance_score)
    \o "," \o csv_link_status(r.link_valid)
    \o ",\"" \o (IF r.location = "" THEN "Unknown" ELSE r.location)
    \o "\",\"" \o r.document_type
    \o "\"," \o (IF r.pricing_likely THEN "Yes" ELSE "No")
    \o ",\"" \o replace(replace(replace(csv_content_summary(r.content_analysis), "\"", "'"),
                                 ",", ";"), "\n", " ")
    \o "\",\"" \o replace(replace(r.title, "\"", "\"\""), "\n", " ")
    \o "\",\"" \o r.url \o "\"\n"

csv_header ==
    "Rank,Score,Category,Link,Location,Document_Type,Pricing_Likely,Content_Summary,Title,URL\n"

\* the text of the CSV file
RECURSIVE csv_rows(_, _)
csv_rows(results, k) ==
    IF k > Len(results) THEN ""
    ELSE csv_row(csv_rank(k), results[k]) \o csv_rows(results, k + 1)

\* save_results: what it writes to the .json and the .csv file
save_results(results) ==
    [json |-> json_results(results), csv |-> csv_header \o csv_rows(results, 1)]

(***************************************************************************)
(* Function-level checks: one call of one function on a drawn input        *)
(***************************************************************************)

\* titles are built from these fragments, in this order
TitleFragments ==
    <<"Agreement", "Staff Report", "Order Form", "Pricing", "Memo", "Item 7", "RFP",
      "Master Contract">>

RECURSIVE JoinFragments(_, _)
JoinFragments(chosen, i) ==
    IF i > Len(TitleFragments) THEN ""
    ELSE LET rest == JoinFragments(chosen, i + 1) IN
         IF i \in chosen
         THEN (IF rest = "" THEN TitleFragments[i] ELSE TitleFragments[i] \o " " \o rest)
         ELSE rest

FragmentTitles == { JoinFragments(chosen, 1) : chosen \in SUBSET (1..Len(TitleFragments)) }

ClassifyUrls ==
    { "https://example.org/page", "https://www.austintx.gov/agenda/packet.pdf",
      "https://example.org/contracts/a.pdf" }

\* urls and titles that between them reach every outcome of filter_result
FilterUrls ==
    { "https://www.gartner.com/reviews/acme-widget",
      "https://WWW.Accela.com/contracts/civicweb/a.pdf",
      "https://example.com/acme",
      "https://example.com/files/x.pdf",
      "https://example.com/archive/x",
      "https://www.austintx.gov/news" }

FilterTitles ==
    { "Overview", "Acme Corp Widget", "Acme Corp contract award", "Widget User Guide" }

\* (url, title) pairs whose location comes from the state-level rule, the known
\* cities, the civicweb rule and the city.ST.us rule
LocationInputs ==
    { [url |-> "https://das.oh.gov/contracts/acme.pdf", title |-> "Acme Widget license"],
      [url |-> "https://example.org/kern.pdf", title |-> "Kern County Acme contract"],
      [url |-> "https://springfield-illinois.civicweb.net/acme", title |-> "Agenda"],
      [url |-> "http://www.state.nj.us/treasury/acme.pdf", title |-> "Acme award"],
      [url |-> "https://co.kern.ca.us/purchasing/acme.pdf", title |-> "Acme Widget contract"] }

mainIdle ==
    /\ pc = "idle" /\ company = "" /\ product = "" /\ num_queries = 0 /\ queries_run = 0
    /\ all_results = <<>> /\ before = <<>> /\ stages = <<>>

\* the candidates the search can return (title and url)
Pool ==
    << [title |-> "Acme Corp Renewal Order Form 2025",
        url |-> "https://cityname.ca.gov/documents/acme-order.pdf"],
       [title |-> "Acme Corp Widget Master Services Agreement 2023",
        url |-> "https://www.austintx.gov/contracts/acme-widget-msa.pdf"],
       [title |-> "Widget Pricing Exhibit A",
        url |-> "https://www.austintx.gov/documents/widget-pricing.pdf"],
       [title |-> "Acme Corp Widget Master Services Agreement",
        url |-> "https://www.austintx.gov/contracts/acme-widget-msa.pdf?utm_source=news"],
       [title |-> "Staff Report Item 7 Acme Agreement",
        url |-> "https://austintx.gov/agenda/item7.pdf"],
       [title |-> "Acme purchase order",
        url |-> "https://docs.austintx.gov/Files/PO-1184.PDF#page=2"],
       [title |-> "Widget RFP 2021",
        url |-> "https://www.austintx.gov/bids/widget-rfp/"],
       [title |-> "Seattle Widget bid",
        url |-> "http://news.example.com/seattle-widget"],
       [title |-> "Widget bid results for Seattle",
        url |-> "http://news.example.com/seattle-widget-results"],
       [title |-> "Seattle council rejects Widget proposal",
        url |-> "http://news.example.com/seattle-council"],
       [title |-> "Annual report",
        url |-> "http://example.org/files/report.pdf"],
       [title |-> "Acme Corp award",
        url |-> "http://portal.example.com/Login.aspx"],
       [title |-> "Acme Widget reviews",
        url |-> "https://www.gartner.com/reviews/acme-widget-contract.pdf"],
       [title |-> "Acme Widget User Guide",
        url |-> "https://www.austintx.gov/documents/widget-user-guide.pdf"],
       [title |-> "Washoe County Acme contract",
        url |-> "https://www.co.washoe.nv.us/purchasing/acme.pdf"],
       [title |-> "Acme Widget license",
        url |-> "https://das.ohio.gov/contracts/acme.pdf"],
       [title |-> "Acme Corp Widget Master Services Agreement 2024",
        url |-> "https://www.austintx.gov/contracts/acme-widget-msa"] >>

\* what one search can return: lists of candidates with distinct urls
SearchPages ==
    { <<Pool[1], Pool[2], Pool[3]>>,
      <<Pool[17], Pool[5], Pool[6], Pool[11]>>,
      <<Pool[7], Pool[8], Pool[9]>>,
      <<Pool[10], Pool[11], Pool[12], Pool[13], Pool[14]>>,
      <<Pool[15], Pool[16], Pool[4], Pool[2]>> }

PoolSet == { Pool[i] : i \in 1..Len(Pool) }

Companies == { "Acme Corp" }
Products == { "Widget" }

\* urls with a fragment, upper-case letters, a slash at the end of the path, and
\* parameters that are kept or dropped
NormalizeUrls ==
    { "https://x.gov/d/", "https://x.gov/d/?utm_source=a",
      "https://X.gov/Docs/?id=3&utm_source=a#top", "https://x.gov/d?file=a.pdf&ref=b#p2" }

TextInputs ==
    [url : ClassifyUrls, title : FragmentTitles, company : Companies, product : Products]
    \union [url : NormalizeUrls, title : {"Acme Corp Widget agreement"},
            company : Companies, product : Products]
    \union { [url |-> c.url, title |-> c.title, company |-> co, product |-> pr] :
                c \in PoolSet \union LocationInputs, co \in Companies, pr \in Products }
    \union [url : FilterUrls, title : FilterTitles, company : Companies, product : Products]

InitText ==
    /\ mainIdle
    /\ fn = "none" /\ ret = "none"
    /\ arg \in TextInputs

CallClassify ==
    /\ fn = "none"
    /\ fn' = "classify"
    /\ ret' = classify(arg.url, arg.title).name
    /\ UNCHANGED <<arg, mainVars>>

CallScoreResult ==
    /\ fn = "none"
    /\ fn' = "score_result"
    /\ ret' = score_result([title |-> arg.title, url |-> arg.url], arg.company, arg.product)
    /\ UNCHANGED <<arg, mainVars>>

CallExtractLocation ==
    /\ fn = "none"
    /\ fn' = "extract_location"
    /\ ret' = extract_location(arg.url, arg.title)
    /\ UNCHANGED <<arg, mainVars>>

\* filter_result; is_blocked_domain returns any of the blocked entries that match
CallFilterResult ==
    /\ fn = "none"
    /\ fn' = "filter_result"
    /\ \E blockedRet \in is_blocked_domain(arg.url) :
        ret' = filter_result([title |-> arg.title, url |-> arg.url], arg.company, arg.product,
                             blockedRet)
    /\ UNCHANGED <<arg, mainVars>>

CallNormalizeUrl ==
    /\ fn = "none"
    /\ fn' = "normalize_url"
    /\ ret' = normalize_url(arg.url)
    /\ UNCHANGED <<arg, mainVars>>

NextText ==
    \/ CallClassify \/ CallScoreResult \/ CallExtractLocation \/ CallFilterResult
    \/ CallNormalizeUrl

\* one call of classify, score_result, extract_location or filter_result on a drawn
\* (url, title)
SpecText == InitText /\ [][NextText]_vars

(***************************************************************************)
(* Function-level checks: deduplication of a drawn candidate list          *)
(***************************************************************************)

MaxList == 3

DedupUrls ==
    { "https://x.gov/d", "https://x.gov/d/", "https://x.gov/d/?utm_source=a",
      "https://X.gov/d#top", "https://x.gov/d?id=3", "https://x.gov/d?id=3&utm_source=a" }

DedupScores == { 20, 35 }

\* a candidate as process_results leaves it, with the given url and score
candidate(url, score) ==
    [title |-> "Acme Corp Widget", url |-> url,
     relevance_score |-> score, score_breakdown |-> <<>>,
     include_reason |-> "Has contract keyword",
     document_type |-> "Other Government Document", pricing_likely |-> FALSE,
     location |-> "", diversity_penalty |-> 0,
     link_valid |-> "unset", link_status |-> 0, link_status_reason |-> "",
     content_analysis |-> NoAnalysis, adjusted |-> FALSE, content_score_adjustment |-> 0]

DedupCandidates == { candidate(u, sc) : u \in DedupUrls, sc \in DedupScores }

DedupInputs == UNION { [1..n -> DedupCandidates] : n \in 0..MaxList }

InitDedup ==
    /\ mainIdle
    /\ fn = "none" /\ ret = "none"
    /\ arg \in DedupInputs

CallDeduplicate ==
    /\ fn = "none"
    /\ fn' = "deduplicate_results"
    /\ ret' = deduplicate_results(arg)
    /\ UNCHANGED <<arg, mainVars>>

\* deduplicate_results applied to its own output
CallDeduplicateAgain ==
    /\ fn = "deduplicate_results"
    /\ fn' = "deduplicate_results twice"
    /\ ret' = [once |-> ret, twice |-> deduplicate_results(ret)]
    /\ UNCHANGED <<arg, mainVars>>

NextDedup == CallDeduplicate \/ CallDeduplicateAgain

SpecDedup == InitDedup /\ [][NextDedup]_vars

(***************************************************************************)
(* Function-level checks: content analysis and saving of a ranked list     *)
(***************************************************************************)

\* two PDFs and a page; one title holds a quote and a comma, one a line break
RankedDocs ==
    { [url |-> "https://www.austintx.gov/contracts/a.pdf",
       title |-> "Acme Corp \"Widget\" agreement, 2024"],
      [url |-> "https://www.co.washoe.nv.us/files/B.PDF", title |-> "Acme Corp\nWidget order form"],
      [url |-> "https://www.austintx.gov/news", title |-> "Acme Corp Widget"] }

RankedScores == { 10, 35 }

\* a candidate as apply_location_diversity leaves it
ranked(doc, score) ==
    [candidate(doc.url, score) EXCEPT
        !.title = doc.title, !.score_breakdown = <<"+1.5 company">>,
        !.location = extract_location(doc.url, doc.title)]

RankedCandidates == { ranked(doc, sc) : doc \in RankedDocs, sc \in RankedScores }

\* the lists main can hold after apply_location_diversity: distinct urls, sorted by
\* descending score
RankedInputs ==
    { l \in UNION { [1..n -> RankedCandidates] : n \in 0..MaxList } :
        /\ \A i, j \in 1..Len(l) : i < j => l[i].url # l[j].url
        /\ \A i \in 1..(Len(l) - 1) : l[i].relevance_score >= l[i + 1].relevance_score }

\* the default of max_to_analyze
max_to_analyze_default == 15

InitRanked ==
    /\ mainIdle
    /\ fn = "none" /\ ret = "none"
    /\ arg \in RankedInputs

\* batch_analyze_documents on the drawn list: each selected PDF has one of the
\* outcomes of analyze_pdf_document
CallBatchAnalyze ==
    /\ fn = "none"
    /\ fn' = "batch_analyze_documents"
    /\ \E max_to_analyze \in {1, max_to_analyze_default} :
        \E outcome \in [pdf_positions(arg, 1, max_to_analyze) -> AnalysisOutcomes] :
            ret' = [outcome |-> outcome,
                    returned |-> batch_analyze_documents(arg, "Acme Corp", "Widget",
                                                         max_to_analyze, outcome)]
    /\ UNCHANGED <<arg, mainVars>>

\* save_results on the list as drawn, or as batch_analyze_documents returned it
CallSaveResults ==
    /\ fn \in {"none", "batch_analyze_documents"}
    /\ fn' = "save_results"
    /\ \E results \in { IF fn = "none" THEN arg ELSE ret.returned } :
        ret' = [results |-> results, saved |-> save_results(results)]
    /\ UNCHANGED <<arg, mainVars>>

NextRanked == CallBatchAnalyze \/ CallSaveResults

SpecRanked == InitRanked /\ [][NextRanked]_vars

(***************************************************************************)
(* Function-level checks: the analysis of a document text                  *)
(***************************************************************************)

\* the price mentions a document text is put together from: the same amount
\* under two labels, amounts just below and at the threshold, a group that
\* holds no digit, and more distinct amounts than are kept
PriceMentions ==
    << "Total Amount: $12,000.00",
       "Not-to-exceed $12,000",
       "Annual fee: $9,500",
       "monthly subscription $99.99",
       "Setup fee: $100",
       "license fee 8,000",
       "support cost: $7,000.50",
       "Acme Corp consulting: $6,000",
       "$5,000 per year",
       "Widget $4,000/month",
       "contract value $3,000",
       "agreement price: ,",
       "yearly cost 2,000 and one-time fee $1,500" >>

\* the mentions at the chosen positions, one per line
RECURSIVE mention_lines(_, _)
mention_lines(chosen, i) ==
    IF i > Len(PriceMentions) THEN <<>>
    ELSE (IF i \in chosen THEN <<PriceMentions[i]>> ELSE <<>>) \o mention_lines(chosen, i + 1)

\* the document texts: up to two of the mentions, or all of them but at most
\* one; and two texts without a printable character
PriceTexts ==
    { join(mention_lines(chosen, 1), "\n") :
        chosen \in { c \in SUBSET (1..Len(PriceMentions)) :
                        Cardinality(c) <= 2 \/ Cardinality(c) >= Len(PriceMentions) - 1 } }
    \union { " \n\t " }

InitAnalyze ==
    /\ mainIdle
    /\ fn = "none" /\ ret = "none"
    /\ arg \in [text : PriceTexts]

\* ContentAnalyzer.analyze on the drawn text
CallAnalyze ==
    /\ fn = "none"
    /\ fn' = "analyze"
    /\ ret' = analyze(arg.text, "Acme Corp", "Widget")
    /\ UNCHANGED <<arg, mainVars>>

\* analyze_pdf_document on a document whose extracted text is the drawn one:
\* each download returns one of its outcomes
CallAnalyzePdfDocument ==
    /\ fn = "none"
    /\ fn' = "analyze_pdf_document"
    /\ \E direct \in DownloadOutcomes, browser \in DownloadOutcomes :
        ret' = [direct |-> direct, browser |-> browser,
                result |-> analyze_pdf_document("https://www.austintx.gov/docs/a.pdf",
                                                "Acme Corp", "Widget",
                                                direct, browser, arg.text)]
    /\ UNCHANGED <<arg, mainVars>>

NextAnalyze == CallAnalyze \/ CallAnalyzePdfDocument

SpecAnalyze == InitAnalyze /\ [][NextAnalyze]_vars

(***************************************************************************)
(* Function-level checks: location diversity of a drawn candidate list     *)
(***************************************************************************)

\* four urls of one location, one of another, one without a location
DiversityUrls ==
    << "https://www.austintx.gov/docs/a.pdf",
       "https://www.co.washoe.nv.us/files/B.PDF",
       "https://www.austintx.gov/docs/b.pdf",
       "https://www.austintx.gov/news",
       "https://example.org/x",
       "https://www.austintx.gov/bids" >>

DiversityScores == { 10, 35 }

\* the candidates of the chosen urls, in the order of DiversityUrls, each with
\* the score given to it
RECURSIVE diversity_list(_, _)
diversity_list(score_of, i) ==
    IF i > Len(DiversityUrls) THEN <<>>
    ELSE (IF i \in DOMAIN score_of THEN <<candidate(DiversityUrls[i], score_of[i])>> ELSE <<>>)
         \o diversity_list(score_of, i + 1)

\* the lists: sorted by score or not
DiversityInputs ==
    { diversity_list(score_of, 1) :
        score_of \in UNION { [chosen -> DiversityScores] :
                                chosen \in SUBSET (1..Len(DiversityUrls)) } }

InitDiversity ==
    /\ mainIdle
    /\ fn = "none" /\ ret = "none"
    /\ arg \in DiversityInputs

\* apply_location_diversity on the drawn list
CallApplyLocationDiversity ==
    /\ fn = "none"
    /\ fn' = "apply_location_diversity"
    /\ ret' = [input |-> arg, returned |-> apply_location_diversity(arg), earlier |-> <<>>]
    /\ UNCHANGED <<arg, mainVars>>

\* a later call: on the list the earlier call returned, or on a new list of
\* its candidates without the first
CallApplyLocationDiversityAgain ==
    /\ fn = "apply_location_diversity"
    /\ fn' = "apply_location_diversity again"
    /\ \E input \in { SubSeq(ret.returned, first, Len(ret.returned)) : first \in {1, 2} } :
        ret' = [input |-> input, returned |-> apply_location_diversity(input),
                earlier |-> ret.input]
    /\ UNCHANGED <<arg, mainVars>>

NextDiversity == CallApplyLocationDiversity \/ CallApplyLocationDiversityAgain

SpecDiversity == InitDiversity /\ [][NextDiversity]_vars

(***************************************************************************)
(* Function-level checks: the concurrent link probes of a drawn list       *)
(***************************************************************************)

LinkUrls == { "https://x.gov/a", "https://x.gov/b" }

\* what a probe can end with: a triple check_link_validity returns, or an
\* exception whose text is longer than the 50 characters that are kept
ProbeOutcomes ==
    { [is_valid |-> "True", status |-> 200, reason |-> "OK", raised |-> FALSE],
      [is_valid |-> "False", status |-> 404, reason |-> "Not Found", raised |-> FALSE],
      [is_valid |-> "False", status |-> 0, raised |-> TRUE,
       reason |-> "cannot schedule new futures after interpreter shutdown"] }

\* the candidate lists, a url possibly more than once, and what the probe
\* submitted for each position ends with
LinkInputs ==
    UNION { [results : [1..n -> { candidate(u, 20) : u \in LinkUrls }],
             probes : [1..n -> ProbeOutcomes]] : n \in 0..MaxList }

InitLinks ==
    /\ mainIdle
    /\ fn = "none" /\ ret = "none"
    /\ arg \in LinkInputs

\* validate_links_batch calls batch_check_links, which submits one probe per
\* url of the list
SubmitProbes ==
    /\ fn = "none"
    /\ fn' = "batch_check_links"
    /\ ret' = [pending |-> 1..Len(urls_to_check(arg.results)), completed |-> <<>>,
               results |-> <<>>]
    /\ UNCHANGED <<arg, mainVars>>

\* as_completed yields one of the probes that are still running
ProbeCompletes ==
    /\ fn = "batch_check_links"
    /\ \E i \in ret.pending :
        ret' = [pending |-> ret.pending \ {i}, completed |-> Append(ret.completed, i),
                results |-> probe_completed(ret.results, urls_to_check(arg.results)[i],
                                            arg.probes[i])]
    /\ UNCHANGED <<fn, arg, mainVars>>

\* every probe has completed: batch_check_links returns the map and
\* validate_links_batch writes it on the candidates
WriteValidity ==
    /\ fn = "batch_check_links"
    /\ ret.pending = {}
    /\ fn' = "validate_links_batch"
    /\ ret' = [completed |-> ret.completed, validity |-> ret.results,
               returned |-> write_validity(arg.results, ret.results)]
    /\ UNCHANGED <<arg, mainVars>>

NextLinks == SubmitProbes \/ ProbeCompletes \/ WriteValidity

SpecLinks == InitLinks /\ [][NextLinks]_vars

(***************************************************************************)
(* main: one run of the pipeline                                           *)
(***************************************************************************)

MaxQueries == 2
MaxPdfs == 1

fnIdle == fn = "none" /\ arg = "none" /\ ret = "none"

\* the steps of main after its inputs are read, in the order main runs them
MainOrder_analysis_first == <<"search", "dedup", "links", "analyze", "diversity", "output">>

MainOrder == <<"search", "dedup", "links", "diversity", "analyze", "output">>

\* the step that follows step p
StepAfter(p) ==
    LET i == CHOOSE k \in 1..Len(MainOrder) : MainOrder[k] = p IN
    IF i = Len(MainOrder) THEN "done" ELSE MainOrder[i + 1]

Init ==
    /\ pc = "start" /\ company = "" /\ product = "" /\ num_queries = 0 /\ queries_run = 0
    /\ all_results = <<>> /\ before = <<>> /\ stages = <<>>
    /\ fnIdle

\* main reads company, product and the number of queries; it returns when a name is empty
ReadInputs ==
    /\ pc = "start"
    /\ \E co \in Companies \union {""}, pr \in Products \union {""}, n \in 1..MaxQueries :
        /\ company' = co /\ product' = pr /\ num_queries' = n
        /\ pc' = IF co = "" \/ pr = "" THEN "done" ELSE MainOrder[1]
    /\ UNCHANGED <<queries_run, all_results, before, stages, fn, arg, ret>>

\* one iteration of the search loop: duckduckgo_search, process_results, extend
Search ==
    /\ pc = "search"
    /\ \E raw \in SearchPages :
        /\ all_results' = all_results \o process_results(raw, company, product)
        /\ before' = raw
    /\ queries_run' = queries_run + 1
    /\ stages' = Append(stages, "process_results")
    /\ pc' = IF queries_run + 1 = num_queries THEN StepAfter("search") ELSE "search"
    /\ UNCHANGED <<company, product, num_queries, fn, arg, ret>>

\* deduplicate_results, then the sort by score
Deduplicate ==
    /\ pc = "dedup"
    /\ all_results' = sort_by_score(deduplicate_results(all_results))
    /\ before' = all_results
    /\ stages' = Append(stages, "deduplicate_results")
    /\ pc' = StepAfter("dedup")
    /\ UNCHANGED <<company, product, num_queries, queries_run, fn, arg, ret>>

\* the user declines link validation
SkipLinks ==
    /\ pc = "links"
    /\ pc' = StepAfter("links")
    /\ UNCHANGED <<company, product, num_queries, queries_run, all_results, before, stages,
                   fn, arg, ret>>

\* validate_links_batch, then the broken links are removed if the user asks for it
ValidateLinks ==
    /\ pc = "links"
    /\ \E down \in SUBSET UnreachableHosts, remove_broken \in BOOLEAN :
        all_results' = IF remove_broken
                       THEN remove_broken_links(validate_links_batch(all_results, down))
                       ELSE validate_links_batch(all_results, down)
    /\ before' = all_results
    /\ stages' = Append(stages, "validate_links_batch")
    /\ pc' = StepAfter("links")
    /\ UNCHANGED <<company, product, num_queries, queries_run, fn, arg, ret>>

Diversity ==
    /\ pc = "diversity"
    /\ all_results' = apply_location_diversity(all_results)
    /\ before' = all_results
    /\ stages' = Append(stages, "apply_location_diversity")
    /\ pc' = StepAfter("diversity")
    /\ UNCHANGED <<company, product, num_queries, queries_run, fn, arg, ret>>

\* no PDF library is installed, or the user declines the analysis
SkipAnalysis ==
    /\ pc = "analyze"
    /\ pc' = StepAfter("analyze")
    /\ UNCHANGED <<company, product, num_queries, queries_run, all_results, before, stages,
                   fn, arg, ret>>

\* batch_analyze_documents, which ends with rescore_after_analysis
Analyze ==
    /\ pc = "analyze"
    /\ \E max_pdfs \in 1..MaxPdfs :
        LET selected == pdf_positions(all_results, 1, max_pdfs) IN
        \E outcome \in [selected -> AnalysisOutcomes] :
            /\ all_results' = batch_analyze_documents(all_results, company, product,
                                                      max_pdfs, outcome)
            /\ stages' = IF selected = {}
                         THEN Append(stages, "batch_analyze_documents")
                         ELSE stages \o <<"batch_analyze_documents", "rescore_after_analysis">>
    /\ before' = all_results
    /\ pc' = StepAfter("analyze")
    /\ UNCHANGED <<company, product, num_queries, queries_run, fn, arg, ret>>

\* display_results and save_results change no candidate
Output ==
    /\ pc = "output"
    /\ stages' = Append(stages, "display_results")
    /\ pc' = StepAfter("output")
    /\ UNCHANGED <<company, product, num_queries, queries_run, all_results, before,
                   fn, arg, ret>>

Next ==
    \/ ReadInputs
    \/ Search
    \/ Deduplicate
    \/ SkipLinks
    \/ ValidateLinks
    \/ Diversity
    \/ SkipAnalysis
    \/ Analyze
    \/ Output

Spec == Init /\ [][Next]_vars

(***************************************************************************)
(* Properties                                                              *)
(***************************************************************************)

Member(s, x) == \E i \in 1..Len(s) : s[i] = x

LastStage == IF stages = <<>> THEN "none" ELSE stages[Len(stages)]

\* C1: every candidate's relevance_score is >= 0 after every stage that touches
\* it (process_results, apply_location_diversity, rescore_after_analysis)
C1_ScoreNeverNegative ==
    \A i \in 1..Len(all_results) : all_results[i].relevance_score >= 0

\* C1 witness: a finished run in which each of the three floors was the
\* binding term: a login page scored 1.5 - 2.0, a third Seattle candidate
\* penalized 2.0 - 3.0, and an analysed document rescored 2.5 - 3.5
C1_FloorsReached ==
    /\ pc = "done"
    /\ \E i \in 1..Len(all_results) :
         /\ all_results[i].score_breakdown = <<"+1.5 company", "-2.0 login page">>
         /\ all_results[i].relevance_score = 0
    /\ \E i \in 1..Len(all_results) :
         /\ all_results[i].diversity_penalty = 30
         /\ all_results[i].relevance_score = 0
    /\ \E i \in 1..Len(all_results) :
         /\ all_results[i].adjusted
         /\ all_results[i].content_score_adjustment = -25
         /\ all_results[i].relevance_score = 0

\* the place of a stage in the order main runs them
StageRank(stage) ==
    CASE stage = "process_results" -> 1
      [] stage = "deduplicate_results" -> 2
      [] stage = "validate_links_batch" -> 3
      [] stage = "apply_location_diversity" -> 4
      [] stage = "batch_analyze_documents" -> 5
      [] stage = "rescore_after_analysis" -> 6
      [] stage = "display_results" -> 7

AcmeInput ==
    [url |-> "https://cityname.ca.gov/documents/acme-order.pdf",
     title |-> "Acme Corp Renewal Order Form 2025",
     company |-> "Acme Corp", product |-> "Widget"]

\* C3 (amended): for the Acme candidate score_result returns exactly 11.5, the
\* sum of the bonuses 1.5 (company) + 1.5 (PDF) + 2.5 (.gov) + 2.5 (Order Form
\* type) + 2.5 (title pattern) + 1.0 (recency 2025), each recorded as a reason
C3_AcmeScore ==
    (fn = "score_result" /\ arg = AcmeInput) =>
        /\ ret.score = 115
        /\ ret.reasons = <<"+1.5 company", "+1.5 PDF", "+2.5 .gov", "+2.5 order form",
                           "+2.5 title pattern", "+1.0 2025">>

\* C3 witness: score_result has scored the Acme candidate as an Order Form
C3_AcmeScored ==
    fn = "score_result" /\ arg = AcmeInput /\ ret.document_type = "Order Form"

\* C3 as stated: the score of the Acme candidate is at least 11.6
C3_AcmeScoreAtLeast116 ==
    (fn = "score_result" /\ arg = AcmeInput) => ret.score >= 116

\* C4 as stated: for the Acme candidate extract_location returns a location
\* that carries the state 'CA', never 'Unknown'
C4_AcmeLocationCarriesCA ==
    (fn = "extract_location" /\ arg = AcmeInput) =>
        ret # "Unknown" /\ Contains(ret, "CA")

\* the title holds both 'agreement' and 'staff report'
TitleHasBoth(title) ==
    Contains(lower(title), "agreement") /\ Contains(lower(title), "staff report")

\* the text classify searches
ClassifyText == lower(arg.url \o " " \o arg.title)

\* C5 (amended): for every (url, title) whose title contains both 'agreement'
\* and 'staff report', classify never returns 'Contract/Agreement'; it returns
\* 'Order Form' when an Order Form pattern occurs in url + title, otherwise
\* 'Pricing Document' when a Pricing Document pattern occurs, and
\* 'Staff Report/Memo' otherwise
C5_StaffReportExclusion ==
    (fn = "classify" /\ TitleHasBoth(arg.title)) =>
        /\ ret # "Contract/Agreement"
        /\ ret = IF \E p \in {"order form", "renewal order", "purchase order"} :
                       Contains(ClassifyText, p)
                 THEN "Order Form"
                 ELSE IF \E p \in {"pricing", "fee schedule", "cost exhibit",
                                   "cost proposal", "price list"} :
                            Contains(ClassifyText, p)
                 THEN "Pricing Document"
                 ELSE "Staff Report/Memo"

\* C5 witness: a staff report whose title and url both name a contract
C5_StaffReportClassified ==
    /\ fn = "classify" /\ TitleHasBoth(arg.title)
    /\ Contains(arg.url, "contracts")
    /\ ret = "Staff Report/Memo"

\* C5 as stated: such a title is classified 'Staff Report/Memo' whatever else
\* the url and title contain
C5_AlwaysStaffReport ==
    (fn = "classify" /\ TitleHasBoth(arg.title)) => ret = "Staff Report/Memo"

\* the types whose inclusion patterns match the text and whose exclusion
\* patterns do not
Eligible(text) ==
    { i \in 1..Len(TYPES) : /\ any_search(TYPES[i].patterns, text)
                            /\ ~any_search(TYPES[i].exclude_patterns, text) }

\* C6: classify is total and first-match-wins: it returns one of the six
\* taxonomy names, the eligible type of lowest priority rank, and 'Other
\* Government Document' exactly when no type is eligible
C6_FirstMatchWins ==
    fn = "classify" =>
        \E eligible \in {Eligible(ClassifyText)} :
            /\ ret \in {"Order Form", "Contract/Agreement", "Pricing Document",
                        "Staff Report/Memo", "RFP/Proposal", "Other Government Document"}
            /\ (ret = "Other Government Document") <=> (eligible = {})
            /\ eligible # {} =>
                 \E i \in eligible :
                     /\ ret = TYPES[i].name
                     /\ \A j \in eligible : TYPES[i].priority <= TYPES[j].priority

\* C6 witness: a text on which a Contract/Agreement and a Pricing Document
\* pattern both match, classified as the type of lower rank
C6_TwoTypesEligible ==
    /\ fn = "classify"
    /\ {2, 3} \subseteq Eligible(ClassifyText)
    /\ ret = "Contract/Agreement"

AsSet(s) == { s[i] : i \in 1..Len(s) }

\* C7: deduplicate_results is idempotent: applied to its own output it returns
\* exactly the same candidates
C7_DedupIdempotent ==
    fn = "deduplicate_results twice" =>
        /\ AsSet(ret.twice) = AsSet(ret.once)
        /\ Len(ret.twice) = Len(ret.once)

\* C7 witness: a list in which a duplicate was merged, and whose output holds a
\* url that normalize_url maps to the key of another kept candidate when
\* applied twice
C7_MergedAndDeduplicatedAgain ==
    /\ fn = "deduplicate_results twice"
    /\ Len(ret.once) < Len(arg)
    /\ \E i, j \in 1..Len(ret.once) :
         /\ i # j
         /\ normalize_url(normalize_url(ret.once[i].url)) = normalize_url(ret.once[j].url)

\* the positions of the input whose normalized url is key
Group(norms, key) == { i \in DOMAIN norms : norms[i] = key }

\* the first position of the group that holds its highest score
FirstBest(results, group) ==
    CHOOSE i \in group :
        /\ \A h \in group : results[h].relevance_score <= results[i].relevance_score
        /\ \A h \in group : results[h].relevance_score = results[i].relevance_score => i <= h

\* C8: deduplicate_results returns exactly one candidate per distinct
\* normalized url of its input, the one with the highest score among those
\* sharing it, and on equal scores the first one encountered
C8_OnePerNormalizedUrl ==
    fn = "deduplicate_results" =>
        \E norms \in { [i \in 1..Len(arg) |-> normalize_url(arg[i].url)] },
           kept \in { [j \in 1..Len(ret) |-> normalize_url(ret[j].url)] } :
            /\ \A i \in DOMAIN norms : Cardinality(Group(kept, norms[i])) = 1
            /\ \A j \in DOMAIN kept :
                 /\ Group(norms, kept[j]) # {}
                 /\ ret[j] = arg[FirstBest(arg, Group(norms, kept[j]))]

\* C8 witness: two candidates with different urls, the same normalized url and
\* the same score, of which the first was kept
C8_TieKeepsFirst ==
    /\ fn = "deduplicate_results"
    /\ \E i, j \in 1..Len(arg) :
         /\ i < j
         /\ arg[i].url # arg[j].url
         /\ normalize_url(arg[i].url) = normalize_url(arg[j].url)
         /\ arg[i].relevance_score = arg[j].relevance_score
         /\ Member(ret, arg[i])

\* v is u with a utm_source= query parameter added
UtmVariant(u, v) == v = u \o "?utm_source=a" \/ v = u \o "&utm_source=a"

\* C9 as stated: two candidates whose urls differ only in a utm_source=
\* parameter are collapsed into one by deduplicate_results, for every base url
C9_UtmVariantsCollapse ==
    fn = "deduplicate_results" =>
        \A i, j \in 1..Len(arg) :
            UtmVariant(arg[i].url, arg[j].url) =>
                Cardinality({ k \in 1..Len(ret) : ret[k].url \in {arg[i].url, arg[j].url} }) <= 1

\* the position in results of the candidate with this url
PositionOf(results, url) == CHOOSE i \in 1..Len(results) : results[i].url = url

\* the location apply_location_diversity stored on the candidate with this url
LocationOf(url) == all_results[PositionOf(all_results, url)].location

\* how many candidates before position i of the input have this location
Occurrence(i, location) ==
    Cardinality({ h \in 1..(i - 1) : LocationOf(before[h].url) = location })

\* C10: right after apply_location_diversity, the k-th candidate (k = 0 for the
\* first, in input order) of a location other than 'Unknown' has lost
\* min(k * 1.5, 4.0), floored at 0: nothing for the first, never more than 4.0;
\* a candidate of location 'Unknown' is not penalized and counts for no location
C10_DiversityPenalty ==
    LastStage = "apply_location_diversity" =>
        /\ Len(all_results) = Len(before)
        /\ \A j \in 1..Len(all_results) :
             \E c \in {all_results[j]} :
             \E i \in {PositionOf(before, c.url)} :
             \E k \in {Occurrence(i, c.location)} :
                IF c.location = "Unknown"
                THEN /\ c.diversity_penalty = 0
                     /\ c.relevance_score = before[i].relevance_score
                     /\ c.score_breakdown = before[i].score_breakdown
                ELSE /\ c.diversity_penalty = (IF 15 * k < 40 THEN 15 * k ELSE 40)
                     /\ c.diversity_penalty <= 40
                     /\ k = 0 => c.diversity_penalty = 0
                     /\ c.relevance_score =
                          (IF before[i].relevance_score > c.diversity_penalty
                           THEN before[i].relevance_score - c.diversity_penalty ELSE 0)

\* C10 witness: four candidates of one location, the fourth penalized by the
\* cap, and an 'Unknown' candidate that follows another one
C10_CapReached ==
    /\ LastStage = "apply_location_diversity"
    /\ \E j \in 1..Len(all_results) :
         /\ all_results[j].diversity_penalty = 40
         /\ Occurrence(PositionOf(before, all_results[j].url), all_results[j].location) = 3
    /\ \E h, i \in 1..Len(before) :
         /\ h < i
         /\ LocationOf(before[h].url) = "Unknown"
         /\ LocationOf(before[i].url) = "Unknown"

\* the signals filter_result decides on, read off the drawn input
ArgText == lower(arg.title \o " " \o arg.url)

SignalBlocked == \E b \in BLOCKED_DOMAINS : Contains(get_domain(arg.url), b)

SignalUserDoc == is_user_documentation(arg.url, arg.title)

SignalPdf == is_pdf_url(arg.url)

SignalTrusted == is_trusted_domain(arg.url)

SignalRepoPattern == has_good_url_pattern(arg.url)

SignalEntityMatch ==
    Contains(ArgText, lower(arg.company)) \/ Contains(ArgText, lower(arg.product))

SignalContractKeyword == \E kw \in contract_keywords : Contains(ArgText, kw)

\* C11: a candidate whose host contains a blocked entry is rejected whatever its
\* title, PDF-ness, trust markers and entity matches are, and the reason names a
\* blocked entry that occurs in the host.
C11_BlockedAlwaysRejected ==
    (fn = "filter_result" /\ SignalBlocked)
        => /\ ret.include = FALSE
           /\ \E b \in BLOCKED_DOMAINS :
                /\ Contains(get_domain(arg.url), b)
                /\ ret.reason = "Blocked domain: " \o b

\* C11 witness: a blocked host whose url is a PDF with a trust marker and a
\* repository pattern and whose title names the company was rejected.
C11_BlockedTrustedPdfRejected ==
    /\ fn = "filter_result"
    /\ SignalBlocked /\ SignalPdf /\ SignalTrusted /\ SignalRepoPattern /\ SignalEntityMatch
    /\ ret.include = FALSE

\* C12: filter_result decides by the first applicable rule of the cascade
\* blocked -> reject; userDoc -> reject; pdf and trusted -> admit; pdf and
\* repoPattern -> admit; no entityMatch -> reject 'No company/product match';
\* contractKeyword or trusted or repoPattern -> admit; otherwise reject 'No contract
\* signals'; and every outcome carries a non-empty reason.
C12_FilterCascade ==
    fn = "filter_result"
        => /\ ret.reason # ""
           /\ IF SignalBlocked THEN ret.include = FALSE
              ELSE IF SignalUserDoc THEN ret.include = FALSE
              ELSE IF SignalPdf /\ SignalTrusted THEN ret.include = TRUE
              ELSE IF SignalPdf /\ SignalRepoPattern THEN ret.include = TRUE
              ELSE IF ~SignalEntityMatch
              THEN ret.include = FALSE /\ ret.reason = "No company/product match"
              ELSE IF SignalContractKeyword \/ SignalTrusted \/ SignalRepoPattern
              THEN ret.include = TRUE
              ELSE ret.include = FALSE /\ ret.reason = "No contract signals"

\* C12 witness: a candidate that passed every earlier rule (not blocked, not user
\* documentation, entity matched) and has no keyword, trust marker or repository
\* pattern was rejected by the last rule.
C12_LastRuleReached ==
    /\ fn = "filter_result"
    /\ ~SignalBlocked /\ ~SignalUserDoc /\ SignalEntityMatch
    /\ ~SignalContractKeyword /\ ~SignalTrusted /\ ~SignalRepoPattern
    /\ ret = [include |-> FALSE, reason |-> "No contract signals"]

IsPrefix(a, b) == Len(a) <= Len(b) /\ SubSeq(b, 1, Len(a)) = a

\* the stages that run after process_results has attached the breakdown
LaterStages ==
    { "apply_location_diversity", "rescore_after_analysis", "validate_links_batch",
      "batch_analyze_documents" }

\* C13: once process_results has attached a candidate's score_breakdown, every
\* later stage keeps the existing entries in their order and only appends: the
\* breakdown a candidate had before the stage is a prefix of the one it has after.
C13_BreakdownAppendOnly ==
    LastStage \in LaterStages
        => \A i \in 1..Len(all_results) :
             \E j \in 1..Len(before) :
                /\ before[j].url = all_results[i].url
                /\ IsPrefix(before[j].score_breakdown, all_results[i].score_breakdown)

\* C13 witness: rescoring appended entries to the breakdown of a candidate that
\* already carried the entries of score_result and a location penalty entry.
C13_AppendedAfterPenalty ==
    /\ LastStage = "rescore_after_analysis"
    /\ \E i \in 1..Len(all_results) :
         \E j \in 1..Len(before) :
            /\ before[j].url = all_results[i].url
            /\ before[j].diversity_penalty > 0
            /\ Len(before[j].score_breakdown) > 1
            /\ Len(all_results[i].score_breakdown) > Len(before[j].score_breakdown)

TwoUpper(s) == Len(s) = 2 /\ IsUpper(CharAt(s, 1)) /\ IsUpper(CharAt(s, 2))

\* a name: a non-empty fragment without a comma
IsFragment(s) == s # "" /\ ~Contains(s, ",")

ShapeStateOf(s) == StartsWithAt(s, 1, "State of ") /\ IsFragment(Slice(s, 10, Len(s)))

ShapeCountyST(s) ==
    /\ Slice(s, Len(s) - 10, Len(s) - 2) = " County, "
    /\ TwoUpper(Slice(s, Len(s) - 1, Len(s)))
    /\ IsFragment(Slice(s, 1, Len(s) - 11))

ShapeCityST(s) ==
    /\ Slice(s, Len(s) - 3, Len(s) - 2) = ", "
    /\ TwoUpper(Slice(s, Len(s) - 1, Len(s)))
    /\ IsFragment(Slice(s, 1, Len(s) - 4))
    /\ ~EndsWith(Slice(s, 1, Len(s) - 4), " County")

ShapeSingle(s) == IsFragment(s) /\ s # "Unknown" /\ ~StartsWithAt(s, 1, "State of ")

\* the shapes a location has
ShapesOf(s) ==
    { sh \in {"state", "county", "city", "single", "unknown"} :
        \/ sh = "state" /\ ShapeStateOf(s)
        \/ sh = "county" /\ ShapeCountyST(s)
        \/ sh = "city" /\ ShapeCityST(s)
        \/ sh = "single" /\ ShapeSingle(s)
        \/ sh = "unknown" /\ s = "Unknown" }

\* what the rules of extract_location found in the drawn input
ArgFound == location_found(get_domain(arg.url), lower(arg.url) \o " " \o lower(arg.title))

CsvRows(csv) ==
    LET lines == split(csv, "\n") IN SubSeq(lines, 2, Len(lines) - 1)

\* C15: the JSON results array and the CSV rows have the same length, and at
\* every position the JSON rank and score equal the Rank and Score fields of
\* the CSV row and both records carry the url of the candidate at that position.
C15_SameRanking ==
    fn = "save_results"
        => LET rows == CsvRows(ret.saved.csv)
               json == ret.saved.json
           IN /\ Len(json) = Len(ret.results)
              /\ Len(rows) = Len(ret.results)
              /\ \A i \in 1..Len(ret.results) :
                    LET fields == split(rows[i], ",") IN
                    /\ json[i].rank = fields[1]
                    /\ json[i].score = fields[2]
                    /\ json[i].rank = NatText(i)
                    /\ json[i].score = TenthsText(ret.results[i].relevance_score)
                    /\ json[i].url = ret.results[i].url
                    /\ EndsWith(rows[i], ",\"" \o ret.results[i].url \o "\"")

\* C15 witness: a list of three candidates reordered by rescoring, with an
\* analysed document and a title holding a line break, was saved.
C15_RescoredListSaved ==
    /\ fn = "save_results"
    /\ Len(ret.results) = 3
    /\ ret.results # arg
    /\ \E i \in 1..3 : ret.results[i].content_analysis.status = "analyzed"
    /\ \E i \in 1..3 : Contains(ret.results[i].title, "\n")

\* the candidate of a list that has the given url
WithUrl(results, url) == results[CHOOSE i \in 1..Len(results) : results[i].url = url]

FailureStatuses == { "error", "download_failed", "no_text" }

\* C16: a failure on one document does not abort the batch: the returned list
\* holds the same candidates as the input, every selected PDF carries the status
\* of its own analysis whatever happened to the documents before it, and a
\* failed document has only its content_analysis status set.
C16_FailureDoesNotAbort ==
    fn = "batch_analyze_documents"
        => /\ Len(ret.returned) = Len(arg)
           /\ \A i \in 1..Len(arg) : \E j \in 1..Len(ret.returned) : ret.returned[j].url = arg[i].url
           /\ \A i \in DOMAIN ret.outcome :
                /\ WithUrl(ret.returned, arg[i].url).content_analysis.status = ret.outcome[i].status
                /\ ret.outcome[i].status \in FailureStatuses
                     => WithUrl(ret.returned, arg[i].url)
                          = [arg[i] EXCEPT !.content_analysis.status = ret.outcome[i].status]

\* C16 witness: the analysis of the first selected PDF raised an exception and
\* the second selected PDF was still analysed.
C16_AnalysedAfterFailure ==
    /\ fn = "batch_analyze_documents"
    /\ Len(ret.returned) = Len(arg)
    /\ \E i, j \in DOMAIN ret.outcome :
         /\ i < j
         /\ WithUrl(ret.returned, arg[i].url).content_analysis.status = "error"
         /\ WithUrl(ret.returned, arg[j].url).content_analysis.status = "analyzed"

\* C17: score_result scores on a 0-10 scale: the returned score lies between 0
\* and 10 inclusive (scores are held in tenths).
C17_ScoreWithinScale ==
    fn = "score_result" => (ret.score >= 0 /\ ret.score <= 100)

\* the sum of the adjustments the claim lists for an analysis, in tenths
ClaimedDelta(ca) ==
    (IF ca.prices_found THEN 20 ELSE 0) + (IF ca.has_product THEN 15 ELSE -20)
    + (IF ca.has_company THEN 10 ELSE -15) + (IF ca.term THEN 5 ELSE 0)

\* the breakdown entries the claim lists for an analysis, in their order
ClaimedEntries(ca) ==
    (IF ca.prices_found THEN <<"+2.0 pricing found">> ELSE <<>>)
    \o (IF ca.has_product THEN <<"+1.5 Widget mentioned">> ELSE <<"-2.0 Widget NOT mentioned">>)
    \o (IF ca.has_company THEN <<"+1.0 Acme Corp mentioned">>
        ELSE <<"-1.5 Acme Corp NOT mentioned">>)
    \o (IF ca.term THEN <<"+0.5 term found">> ELSE <<>>)

Max0(x) == IF x < 0 THEN 0 ELSE x

\* C18: for a candidate whose analysis succeeded, rescore_after_analysis sets the
\* score to max(0, old + pricing + product + company + term adjustments), the
\* floor applied once to the sum, records content_score_adjustment = new - old,
\* and appends one breakdown entry per applied adjustment in that order.
C18_RescoreFormula ==
    fn = "batch_analyze_documents"
        => \A i \in DOMAIN ret.outcome :
             ret.outcome[i].status = "analyzed"
               => LET r == WithUrl(ret.returned, arg[i].url)
                      old == arg[i].relevance_score
                  IN /\ r.relevance_score = Max0(old + ClaimedDelta(ret.outcome[i]))
                     /\ r.content_score_adjustment = r.relevance_score - old
                     /\ r.score_breakdown
                          = arg[i].score_breakdown \o ClaimedEntries(ret.outcome[i])

\* C18 witness: a candidate of score 1.0 whose document mentions the company and
\* a term but not the product was rescored to 0.5: the running sum went below 0
\* after the product adjustment and the floor was applied to the final sum only.
C18_FloorOnFinalSum ==
    /\ fn = "batch_analyze_documents"
    /\ \E i \in DOMAIN ret.outcome :
         /\ arg[i].relevance_score = 10
         /\ ret.outcome[i] = [status |-> "analyzed", prices_found |-> FALSE,
                              has_product |-> FALSE, has_company |-> TRUE, term |-> TRUE]
         /\ WithUrl(ret.returned, arg[i].url).relevance_score = 5
         /\ WithUrl(ret.returned, arg[i].url).content_score_adjustment = -5

FrameKeys(r) == <<r.relevance_score, r.score_breakdown, r.adjusted, r.content_score_adjustment>>

\* C19: rescore_after_analysis leaves untouched every candidate without a content
\* analysis or whose status is not 'analyzed': its relevance_score and
\* score_breakdown are unchanged and no content_score_adjustment is recorded.
C19_UnanalysedUntouched ==
    fn = "batch_analyze_documents"
        => \A i \in 1..Len(arg) :
             LET r == WithUrl(ret.returned, arg[i].url) IN
             r.content_analysis.status # "analyzed"
               => /\ r.content_analysis.status \in FailureStatuses \union {"none"}
                  /\ FrameKeys(r) = FrameKeys(arg[i])
                  /\ r.adjusted = FALSE

\* C19 witness: rescoring changed one candidate of the list while a candidate
\* whose download failed and a candidate without analysis kept their scores.
C19_SkippedBesideRescored ==
    /\ fn = "batch_analyze_documents"
    /\ \E i, j, k \in 1..Len(ret.returned) :
         /\ ret.returned[i].adjusted
         /\ ret.returned[j].content_analysis.status = "download_failed"
         /\ ret.returned[k].content_analysis.status = "none"
         /\ \E n \in 1..Len(arg) : arg[n] = [ret.returned[j] EXCEPT !.content_analysis = NoAnalysis]

SortedDescending(results) ==
    \A i \in 1..(Len(results) - 1) : results[i].relevance_score >= results[i + 1].relevance_score

UrlsOf(results) == [i \in 1..Len(results) |-> results[i].url]

\* C20: the candidate list is sorted by non-increasing relevance_score whenever
\* apply_location_diversity or rescore_after_analysis has returned, and so is the
\* list main hands to display_results and save_results, whichever of link
\* validation, broken-link removal and content analysis ran.
C20_SortedAtOutput ==
    (\/ LastStage \in {"apply_location_diversity", "rescore_after_analysis",
                      "batch_analyze_documents", "display_results"}
     \/ pc \in {"analyze", "output"})
        => SortedDescending(all_results)

\* C20 witness: after link validation, the diversity pass and a content analysis
\* whose rescoring changed the order of the candidates, the list was displayed.
C20_ReorderedListDisplayed ==
    /\ LastStage = "display_results"
    /\ Member(stages, "validate_links_batch")
    /\ Member(stages, "rescore_after_analysis")
    /\ Len(all_results) >= 3
    /\ Len(before) = Len(all_results)
    /\ UrlsOf(before) # UrlsOf(all_results)
    /\ \E i \in 1..Len(all_results) : all_results[i].diversity_penalty > 0

TrustEntries == { "+2.5 .gov", "+2.0 trusted", "+1.0 doc repo" }

\* C21: score_result applies at most one domain-trust bonus, first match wins:
\* '+2.5 .gov' if '.gov' occurs in the url, otherwise '+2.0 trusted' if the url is
\* trusted, otherwise '+1.0 doc repo' if it matches a repository pattern.
C21_OneTrustBonus ==
    fn = "score_result"
        => LET got == { i \in 1..Len(ret.reasons) : ret.reasons[i] \in TrustEntries }
               url == lower(arg.url)
               expected == IF Contains(url, ".gov") THEN {"+2.5 .gov"}
                           ELSE IF is_trusted_domain(url) THEN {"+2.0 trusted"}
                           ELSE IF has_good_url_pattern(url) THEN {"+1.0 doc repo"}
                           ELSE {}
           IN /\ Cardinality(got) <= 1
              /\ { ret.reasons[i] : i \in got } = expected

\* C21 witness: a url that holds '.gov', is trusted and matches a repository
\* pattern was scored with the '.gov' bonus alone.
C21_GovBeatsTrustedAndRepo ==
    /\ fn = "score_result"
    /\ Contains(lower(arg.url), ".gov")
    /\ is_trusted_domain(lower(arg.url))
    /\ has_good_url_pattern(lower(arg.url))
    /\ { r \in TrustEntries : Member(ret.reasons, r) } = {"+2.5 .gov"}

\* the amounts of the entries the extraction loop appends for the text
MatchedAmounts(text) ==
    Only({ { entries[i].amount : i \in 1..Len(entries) }
           : entries \in {extract_prices(lower(text), 1)} })

\* C22: prices_found of ContentAnalyzer.analyze has at most 8 entries, each of
\* an amount of at least 100, in strictly decreasing order of amount (so no
\* amount twice), and its amounts are the largest of the distinct amounts that
\* matched: all of them when there are at most 8, the 8 largest otherwise
C22_PricesFound ==
    fn = "analyze"
        => LET prices == ret.prices_found
               matched == MatchedAmounts(arg.text)
           IN /\ Len(prices) <= 8
              /\ \A i \in 1..Len(prices) : prices[i].amount >= 100 * 100
              /\ \A i \in 1..(Len(prices) - 1) : prices[i].amount > prices[i + 1].amount
              /\ { prices[i].amount : i \in 1..Len(prices) }
                    = { a \in matched : Cardinality({ b \in matched : b > a }) < 8 }

\* C22 witness: a text in which more than 8 distinct amounts matched, one of
\* them twice, and a smaller one below 100 was dropped; 8 entries are returned
C22_MoreThanEightMatched ==
    /\ fn = "analyze"
    /\ Cardinality(MatchedAmounts(arg.text)) > 8
    /\ Len(extract_prices(lower(arg.text), 1)) > Cardinality(MatchedAmounts(arg.text))
    /\ Contains(arg.text, "$99.99")
    /\ Len(ret.prices_found) = 8

\* C24: analyze_pdf_document returns the status 'download_failed', 'no_text' or
\* 'analyzed', never the initial 'unknown'; 'analysis' is set exactly when the
\* status is 'analyzed'; the browser download is called only after the direct
\* download returned nothing; 'download_failed' is returned only when both
\* downloads returned nothing, 'no_text' only when one of them returned a
\* document and the extracted text is blank
C24_PdfStatus ==
    fn = "analyze_pdf_document"
        => LET result == ret.result
               calls == result.calls
           IN /\ result.status \in {"download_failed", "no_text", "analyzed"}
              /\ (result.analysis # <<>>) <=> (result.status = "analyzed")
              /\ Member(calls, "download_pdf_via_browser")
                    => /\ ret.direct # "bytes"
                       /\ calls[1] = "download_pdf" /\ calls[2] = "download_pdf_via_browser"
              /\ result.status = "download_failed"
                    => /\ ret.direct # "bytes" /\ ret.browser # "bytes"
                       /\ Member(calls, "download_pdf_via_browser")
              /\ result.status = "no_text"
                    => /\ ret.direct = "bytes" \/ ret.browser = "bytes"
                       /\ blank(arg.text)

\* C24 witness: the direct download returned nothing, the browser download a
\* document without text, and 'no_text' is returned without an analysis
C24_NoTextAfterBrowserDownload ==
    /\ fn = "analyze_pdf_document"
    /\ ret.direct = "None" /\ ret.browser = "bytes"
    /\ ret.result.download_method = "browser"
    /\ ret.result.status = "no_text" /\ ret.result.analysis = <<>>

DiversityCall == fn \in { "apply_location_diversity", "apply_location_diversity again" }

\* the positions of the called list whose candidate is the first of its location
FirstOfLocation(input, returned) ==
    { i \in 1..Len(input) :
        /\ WithUrl(returned, input[i].url).location # "Unknown"
        /\ \A h \in 1..(i - 1) :
             WithUrl(returned, input[h].url).location # WithUrl(returned, input[i].url).location }

\* C23: in every call of apply_location_diversity, the first or a later one,
\* the first candidate of each location other than 'Unknown' leaves the call
\* with the score and the breakdown it entered with, whatever earlier calls
\* counted: the counter starts empty in each call
C23_CounterPerCall ==
    DiversityCall =>
        /\ Len(ret.returned) = Len(ret.input)
        /\ \A i \in FirstOfLocation(ret.input, ret.returned) :
             /\ WithUrl(ret.returned, ret.input[i].url).relevance_score
                    = ret.input[i].relevance_score
             /\ WithUrl(ret.returned, ret.input[i].url).score_breakdown
                    = ret.input[i].score_breakdown

\* C23 witness: a second call whose first candidate of a location was
\* penalized as the second of that location by the call before, and leaves
\* the second call as it entered it
C23_SecondCallStartsAtZero ==
    /\ fn = "apply_location_diversity again"
    /\ \E i \in FirstOfLocation(ret.input, ret.returned) :
         /\ ret.input[i].diversity_penalty = 15
         /\ WithUrl(ret.returned, ret.input[i].url) = ret.input[i]

\* the penalty the call gave the candidate at position i of its input: the
\* amount of the breakdown entry the call appended, 0 when it appended none
PenaltyReceived(input, returned, i) ==
    Only({ IF Len(c.score_breakdown) > Len(input[i].score_breakdown)
           THEN c.diversity_penalty ELSE 0
           : c \in {WithUrl(returned, input[i].url)} })

\* C30: when the list given to apply_location_diversity is sorted by
\* non-increasing score, of two candidates of the same location other than
\* 'Unknown' the one that stood earlier receives no larger a penalty, ends with
\* no smaller a score, and stands before the other in the returned list
C30_EarlierStaysAhead ==
    (DiversityCall /\ SortedDescending(ret.input)) =>
        \A i, j \in 1..Len(ret.input) :
            \E a \in {WithUrl(ret.returned, ret.input[i].url)},
               b \in {WithUrl(ret.returned, ret.input[j].url)} :
                (i < j /\ a.location # "Unknown" /\ a.location = b.location)
                    => /\ PenaltyReceived(ret.input, ret.returned, i)
                            <= PenaltyReceived(ret.input, ret.returned, j)
                       /\ a.relevance_score >= b.relevance_score
                       /\ PositionOf(ret.returned, a.url) < PositionOf(ret.returned, b.url)

\* C30 witness: a sorted list in which two candidates of one location end with
\* the same score, the earlier still before the other, while a candidate of
\* another location that stood behind both has moved before the later one
C30_TieKeepsInputOrder ==
    /\ fn = "apply_location_diversity"
    /\ SortedDescending(ret.input)
    /\ \E i, j, k \in 1..Len(ret.input) :
        \E a \in {WithUrl(ret.returned, ret.input[i].url)},
           b \in {WithUrl(ret.returned, ret.input[j].url)},
           c \in {WithUrl(ret.returned, ret.input[k].url)} :
            /\ i < j /\ j < k
            /\ a.location # "Unknown" /\ a.location = b.location /\ c.location # a.location
            /\ PenaltyReceived(ret.input, ret.returned, i) > 0
            /\ a.relevance_score = b.relevance_score
            /\ PositionOf(ret.returned, a.url) < PositionOf(ret.returned, b.url)
            /\ PositionOf(ret.returned, c.url) < PositionOf(ret.returned, b.url)

\* the map batch_check_links returns when the probes complete in the order in
\* which they were submitted
InSubmissionOrder ==
    Only({ batch_check_links(urls, arg.probes, [i \in 1..Len(urls) |-> i])
           : urls \in {urls_to_check(arg.results)} })

\* the probes of one url all end alike
ProbesAgree ==
    \A i, j \in 1..Len(arg.results) :
        arg.results[i].url = arg.results[j].url => arg.probes[i] = arg.probes[j]

\* the entry of a probe that raised
RaisedEntry(probe) ==
    [is_valid |-> "False", status |-> 0, reason |-> Slice(probe.reason, 1, 50)]

CountyHost(url) ==
    \E d \in {get_domain(url)} :
    \E m \in {match_co_county_st_us(d)} :
        m.matched /\ d = "co." \o m.g1 \o "." \o m.g2 \o ".us"

\* C26: for a url whose host has the form co.<county>.<st>.us, extract_location
\* returns '<County> County, <ST>'
C26_CountyHostGivesCounty ==
    (fn = "extract_location" /\ CountyHost(arg.url))
        => \E m \in {match_co_county_st_us(get_domain(arg.url))} :
            ret = title_case(m.g1) \o " County, " \o upper(m.g2)

\* the parameters of the query string of a url, none when it has no '?'
QueryParams(u) ==
    IF Find(u, "?") = 0 THEN {}
    ELSE Only({ { params[i] : i \in 1..Len(params) }
                : params \in {split(Slice(u, Find(u, "?") + 1, Len(u)), "&")} })

\* C27: normalize_url returns a lower-case string without fragment that does
\* not end in '/', and every parameter of its query string holds 'id=', 'doc='
\* or 'file='
C27_NormalizedForm ==
    fn = "normalize_url"
        => /\ ret = lower(ret)
           /\ ~Contains(ret, "#")
           /\ ~EndsWith(ret, "/")
           /\ \A p \in QueryParams(ret) : \E k \in {"id=", "doc=", "file="} : Contains(p, k)

\* the signed amount, in tenths, a breakdown entry starts with: '+1.5' of
\* '+1.5 company', '-2.0' of '-2.0 login page'
EntryAmount(entry) ==
    Only({ (IF CharAt(number, 1) = "-" THEN -1 ELSE 1)
           * (DigitsValue(Slice(number, 2, Find(number, ".") - 1)) * 10
              + DigitsValue(Slice(number, Find(number, ".") + 1, Len(number))))
           : number \in {split(entry, " ")[1]} })

RECURSIVE BreakdownSum(_)
BreakdownSum(breakdown) ==
    IF breakdown = <<>> THEN 0
    ELSE EntryAmount(Head(breakdown)) + BreakdownSum(Tail(breakdown))

PricingTypes == { "Order Form", "Contract/Agreement", "Pricing Document" }

\* C28: right after process_results every admitted candidate has
\* relevance_score = max(0, sum of the signed amounts of its score_breakdown
\* entries), one of the six document types, and pricing_likely true exactly
\* for 'Order Form', 'Contract/Agreement' and 'Pricing Document'
C28_ScoreIsBreakdownSum ==
    LastStage = "process_results" =>
        \A i \in 1..Len(all_results) :
            \E c \in {all_results[i]} :
                /\ c.relevance_score = Max0(BreakdownSum(c.score_breakdown))
                /\ c.document_type \in PricingTypes \union
                        { "Staff Report/Memo", "RFP/Proposal", "Other Government Document" }
                /\ c.pricing_likely <=> (c.document_type \in PricingTypes)

\* C28 witness: right after process_results, a candidate whose entries sum to
\* less than 0 and whose score is 0, one of a pricing type and a staff report
C28_FlooredAndTyped ==
    /\ LastStage = "process_results"
    /\ \E i \in 1..Len(all_results) :
         /\ BreakdownSum(all_results[i].score_breakdown) < 0
         /\ all_results[i].relevance_score = 0
    /\ \E i \in 1..Len(all_results) :
         /\ all_results[i].document_type = "Order Form" /\ all_results[i].pricing_likely
    /\ \E i \in 1..Len(all_results) :
         /\ all_results[i].document_type = "Staff Report/Memo" /\ ~all_results[i].pricing_likely

\* C29: no candidate process_results admitted is user documentation, and none
\* carries the entry '-3.0 user doc': filter_result rejects what
\* is_user_documentation holds of, and score_result tests the same predicate
\* on the same url and title
C29_NoUserDocPenalty ==
    /\ \A i \in 1..Len(all_results) :
         ~Member(all_results[i].score_breakdown, "-3.0 user doc")
    /\ LastStage = "process_results" =>
         \A i \in 1..Len(all_results) :
            ~is_user_documentation(all_results[i].url, all_results[i].title)

\* C29 witness: process_results was given a page with a user guide, which
\* score_result penalizes, and admitted other results of the page, one of them
\* with a penalty, but not the user guide
C29_UserGuideRejected ==
    /\ LastStage = "process_results"
    /\ \E j \in 1..Len(before) :
         /\ is_user_documentation(before[j].url, before[j].title)
         /\ Member(score_result(before[j], company, product).reasons, "-3.0 user doc")
         /\ \A i \in 1..Len(all_results) : all_results[i].url # before[j].url
    /\ \E i \in 1..Len(all_results) :
         /\ Member(all_results[i].score_breakdown, "-2.0 login page")
         /\ \E j \in 1..Len(before) : before[j].url = all_results[i].url

====
